---- MODULE Spec2Model ----
(***************************************************************************)
(* The CAPTCHA solving loop of Rainyun-Qiandao: process_captcha and the    *)
(* functions it calls, in its two versions, src/rainyun.py ("main") and    *)
(* src/0x6768/rainyun.py ("alt").                                          *)
(*                                                                         *)
(* process_captcha is recursive: every retry is a call of itself.  The     *)
(* model keeps the call stack (one entry per suspended caller, holding the *)
(* place of the call) because where the call stands, inside the try body   *)
(* or inside the except handler, decides what happens to an exception      *)
(* that comes out of the callee.                                           *)
(***************************************************************************)
EXTENDS Integers, Sequences, FiniteSets, TLC

VARIABLES
    variant,      \* which file runs: "main" (src/rainyun.py) or "alt" (src/0x6768/rainyun.py)
    pc,           \* the place of the running frame
    retry_count,  \* the running frame's parameter retry_count
    stack,        \* the suspended callers, outermost first: the place of each one's call
    exc,          \* the exception being raised, "none" when there is none
    ret,          \* the value being returned while frames are left
    outcome,      \* what the caller of process_captcha(ctx) gets: "running", "true", "false", "raised"
    band,         \* check_captcha's loop index i (0..3)
    bboxes,       \* the detector's regions (in SpecScan: the regions scanned so far)
    sims,         \* sims[i][j]: what compute_similarity gives for region i and sprite j
    scanI,        \* the number of regions the scan loop has done
    result,       \* the dict result of the scan
    gi,           \* the gesture loop's index i (0..3)
    events,       \* history: what the current attempt did, in order
    attempts,     \* history: the number of attempts started in this solve (counted up to one past the limit)
    reloadFailed, \* history: a click of the reload control has failed in this solve
    successSeen,  \* history: some attempt read the success marker
    files,        \* the regular files of ctx.temp_dir, each with the attempt that wrote it
    reads,        \* history: the files the current attempt has read, as it found them
    captcha,      \* captcha.shape as <<width_raw, height_raw>>
    style,        \* what the width and the height declaration of slide_bg's style parse to
    slide_bg,     \* slide_bg.size as <<width, height>>
    size,         \* <<width, height>> of the current gesture
    final,        \* <<final_x, final_y>> of the current gesture
    raw,          \* the width of the sprite sheet sprite.jpg holds (raw.shape[1]), 0 when it does not decode
    temp,         \* the columns <<from, to>> of the band check_captcha cut last
    labels,       \* history: the labels the classifier gave in the current attempt, in order
    des1,         \* compute_similarity: the number of descriptors of the first image, 0 for None
    des2,         \* compute_similarity: the number of descriptors of the second image, 0 for None
    matches,      \* compute_similarity: what bf.knnMatch(des1, des2, k=2) gives
    similarity,   \* compute_similarity: what it returns
    output_path,  \* download_image: the file it writes, "captcha" or "sprite" ("none" outside it)
    attempt,      \* download_image and _request: the loop variable attempt
    at,           \* download_image and _request: the place in the loop, "idle" outside them
    wire,         \* history: the HTTP requests sent and the sleeps taken by the current call, in order
    returned,     \* download_image and _request: how the call ended, "pending" while it runs
    manager,      \* ServerManager: auto_renew, renew_threshold, renew_product_ids, _whitelist_parse_error
    servers,      \* check_and_renew: the list servers, each <<days_remaining, renew_price>>, its id its place
    visited,      \* check_and_renew: the number of servers "for server in servers" has done
    points,       \* check_and_renew: result["points"]
    renewed,      \* check_and_renew: result["renewed"], as server ids
    warnings,     \* check_and_renew: result["warnings"], one tag per warning
    sent,         \* history: the ids renew_server was called for, in order
    details,      \* what the API holds for each server id: its detail, or that fetching it fails
    stage,        \* check_and_renew: the place in it, "idle" outside it
    fetched,      \* history: the points get_user_points gave at the start of check_and_renew
    listed,       \* check_and_renew: result["servers"], each <<id, renewed>>
    points_warning, \* check_and_renew: result["points_warning"], NoWarning for None
    environ,      \* os.environ, as far as run() and ServerManager read it
    loaded,       \* src/rainyun.py: the name ServerManager is the class, not None
    step,         \* run(): the place in it, "idle" outside it
    driver,       \* run(): the local driver is set (init_selenium returned)
    ending,       \* history: how the try block of run() ended, "none" while it runs
    trail         \* history: what run() did to the world, in order

vars == <<variant, pc, retry_count, stack, exc, ret, outcome, band, bboxes, sims,
          scanI, result, gi, events, attempts, reloadFailed, successSeen, files, reads,
          captcha, style, slide_bg, size, final, raw, temp, labels,
          des1, des2, matches, similarity,
          output_path, attempt, at, wire, returned,
          manager, servers, visited, points, renewed, warnings, sent,
          details, stage, fetched, listed, points_warning,
          environ, loaded, step, driver, ending, trail>>

locals == <<band, bboxes, sims, scanI, result, gi>>
frames == <<retry_count, stack>>
history == <<events, attempts, reloadFailed, successSeen>>
disk == <<files, reads>>
geometry == <<captcha, style, slide_bg, size, final>>
sheet == <<raw, temp, labels>>
matcher == <<des1, des2, matches, similarity>>
http == <<output_path, attempt, at, wire, returned>>
renewal == <<manager, servers, visited, points, renewed, warnings, sent,
             details, stage, fetched, listed, points_warning>>
setup == <<environ, loaded>>
runner == <<step, driver, ending, trail>>
services == <<http, renewal, setup, runner>>

-----------------------------------------------------------------------------
(* Configuration and vocabulary *)

\* config.py: CAPTCHA_RETRY_LIMIT = _read_int("CAPTCHA_RETRY_LIMIT", 5)
CAPTCHA_RETRY_LIMIT == 5

Variants == {"main", "alt"}
Sprites == 1..3

\* The exception classes the code tells apart are the 3 of the except clause,
\* "TimeoutException", "ValueError" and "CaptchaRetryableError", and "Other":
\* any class outside it (NoSuchElementException, cv2.error, TypeError, ...).
\* Every WebDriver command may time out or fail otherwise.
DriverErrors == {"TimeoutException", "Other"}

\* What a call of the classification or detection model may raise: its
\* library is not part of the repository.
ModelErrors == {"ValueError", "Other"}

\* The labels ctx.ocr.classification may give; "x" is any label but "0" and "1".
Labels == {"0", "1", "x"}

\* What result_el.get_attribute("class") may give; "none" is Python's None
\* (the element has no class attribute).
IndicatorClasses == {"show-success", "show-error", "none"}

NoResult == <<>>

-----------------------------------------------------------------------------
(* Pure helpers of the code *)

\* except (TimeoutException, ValueError, CaptchaRetryableError) as e
Caught_noTimeout(e) == e \in {"ValueError", "CaptchaRetryableError"}
Caught(e) == e \in {"TimeoutException", "ValueError", "CaptchaRetryableError"}

\* if retry_count >= CAPTCHA_RETRY_LIMIT: return False
LimitReached_off(rc) == rc > CAPTCHA_RETRY_LIMIT
LimitReached(rc) == rc >= CAPTCHA_RETRY_LIMIT

\* if ctx.ocr.classification(temp_rb) in ["0", "1"]: return False
Degenerate(label) == label \in {"0", "1"}

\* if check_captcha(ctx): <recognise> else: <log>, then the refresh
AfterCheckCaptcha_ignored(ok) == "read_captcha"
AfterCheckCaptcha(ok) == IF ok THEN "read_captcha" ELSE "refresh"

\* for i in range(3): <gesture i>, then the submit
GestureLoop_short(i) == IF i + 1 >= 2 THEN "submit" ELSE "lookup"
GestureLoop(i) == IF i + 1 = 3 THEN "submit" ELSE "lookup"

\* if 'show-success' in result_el.get_attribute("class")
IsSuccess_any(cls) == cls # "none"
IsSuccess(cls) == cls = "show-success"

\* The keys of the dict result: f"sprite_{j}.similarity", f"sprite_{j}.position"
similarity_key(j) == <<j, "similarity">>
position_key(j) == <<j, "position">>

\* The values of the dict: a float (the similarity) or the str "cx,cy".
FloatVal(s) == <<"float", s>>
\* f"{int((x1 + x2) / 2)},{int((y1 + y2) / 2)}": coordinates are not negative,
\* so int() of the quotient is the floor.
Position(b) == <<"str", (b[1] + b[3]) \div 2, (b[2] + b[4]) \div 2>>

\* The update of result for region b and sprite j with similarity s:
\* the first value is stored, a later one only if it is strictly greater.
Better_orEqual(old, new) == old <= new
Better(old, new) == old < new

Record(d, b, j, s) ==
    IF similarity_key(j) \in DOMAIN d /\ ~Better(d[similarity_key(j)][2], s)
    THEN d
    ELSE [k \in DOMAIN d \cup {similarity_key(j), position_key(j)} |->
            IF k = similarity_key(j) THEN FloatVal(s)
            ELSE IF k = position_key(j) THEN Position(b)
            ELSE d[k]]

\* The inner loop "for j in range(3)" for one region b, row[j] being the
\* similarity of sprite j with the region.
ScanRegionInto(d, b, row) == Record(Record(Record(d, b, 1, row[1]), b, 2, row[2]), b, 3, row[3])

Values(d) == {d[k] : k \in DOMAIN d}
Positions(d) == {k \in DOMAIN d : k[2] = "position"}

\* check_answer of src/rainyun.py: at least 6 keys, at least 3 positions, no
\* two position keys with the same value.
check_answer_main_anyValue(d) ==
    /\ Cardinality(DOMAIN d) >= 6
    /\ Cardinality(DOMAIN d) = Cardinality({d[k] : k \in DOMAIN d})
check_answer_main(d) ==
    /\ Cardinality(DOMAIN d) >= 6
    /\ Cardinality(Positions(d)) >= 3
    /\ Cardinality(Positions(d)) = Cardinality({d[k] : k \in Positions(d)})

\* check_answer of src/0x6768/rainyun.py: at least 6 keys, and the dict
\* flipped (value -> key) has as many keys as d has values: no two keys of
\* d, similarity keys included, hold the same value.
check_answer_alt(d) ==
    /\ Cardinality(DOMAIN d) >= 6
    /\ Cardinality(DOMAIN d) = Cardinality(Values(d))

check_answer_always(v, d) == d # NoResult
check_answer(v, d) == IF v = "main" THEN check_answer_main(d) ELSE check_answer_alt(d)

-----------------------------------------------------------------------------
(* The geometry of a gesture.  Lengths are whole pixels; a pair is         *)
(* <<width, height>> or <<x, y>>.                                          *)

\* No value yet.
NoPair == <<0, 0>>

\* get_width_from_style / get_height_from_style raised ValueError: the
\* style is empty, has no such px declaration, or its number is no float.
NoParse == -1

\* get_element_size raised ValueError.
NoSize == <<NoParse, NoParse>>

\* get_element_size: size.get("width", 0), size.get("height", 0);
\* "if not width or not height: raise ValueError"
get_element_size(el) == IF el[1] = 0 \/ el[2] = 0 THEN NoSize ELSE el

\* try: width = get_width_from_style(style); height = get_height_from_style(style)
\* except ValueError: width, height = get_element_size(slide_bg)
RenderedSize_mixed(st, el) ==
    IF get_element_size(el) = NoSize /\ (st[1] = NoParse \/ st[2] = NoParse) THEN NoSize
    ELSE << IF st[1] # NoParse THEN st[1] ELSE el[1], IF st[2] # NoParse THEN st[2] ELSE el[2] >>
RenderedSize(st, el) ==
    IF st[1] # NoParse /\ st[2] # NoParse THEN st ELSE get_element_size(el)

\* int(n / d) for d > 0: Python's int() of a float drops the fraction, towards 0.
Trunc_floor(n, d) == n \div d
Trunc(n, d) == IF n >= 0 THEN n \div d ELSE -((-n) \div d)

\* x_offset = float(-width / 2); final_x = int(x_offset + x / width_raw * width),
\* and the same for y: the sum is (2 * x * width - width * width_raw) / (2 * width_raw).
\* The quotient is taken exactly; the code takes it in double precision.
Axis_corner(x, side_raw, side) == Trunc(2 * x * side, 2 * side_raw)
Axis(x, side_raw, side) == Trunc(2 * x * side - side * side_raw, 2 * side_raw)

\* x, y = int(positon.split(",")[0]), int(positon.split(",")[1])
PointOf(position) == <<position[2], position[3]>>

\* What cv2.imread may give for captcha.jpg: the puzzles' regions lie in it.
Shapes == {<<4, 4>>, <<6, 5>>}
\* What the style's declarations may parse to, and what slide_bg.size may be.
Styles == {<<NoParse, NoParse>>, <<2, NoParse>>, <<NoParse, 3>>, <<2, 3>>}
ElementSizes == {<<0, 0>>, <<4, 0>>, <<0, 5>>, <<4, 5>>}

-----------------------------------------------------------------------------
(* The sprite sheet and the matcher *)

\* w = raw.shape[1]; temp = raw[:, w // 3 * i: w // 3 * (i + 1)]: the columns
\* of band i (0, 1, 2), from the first to the one after the last.
Slice_thirds(w, i) == <<(w * i) \div 3, (w * (i + 1)) \div 3>>
Slice(w, i) == <<(w \div 3) * i, (w \div 3) * (i + 1)>>

\* The widths a downloaded sprite sheet may have; 0: sprite.jpg does not decode.
SheetWidths == {0, 2, 7}

\* m.distance < 0.8 * n.distance
RatioTest_loose(m, n) == 5 * m <= 4 * n
RatioTest(m, n) == 5 * m < 4 * n

\* good = [m for m_n in matches if len(m_n) == 2 for m, n in [m_n]
\*         if m.distance < 0.8 * n.distance], as the set of its places
Good(ms) == {i \in 1..Len(ms) : Len(ms[i]) = 2 /\ RatioTest(ms[i][1], ms[i][2])}

\* compute_similarity: (similarity, matched), the float similarity as the
\* fraction <<numerator, denominator>>; 0.0 is <<0, 1>>.
compute_similarity(d1, d2, ms) ==
    IF d1 = 0 \/ d2 = 0 THEN << <<0, 1>>, 0 >>
    ELSE IF Cardinality(Good(ms)) = 0 THEN << <<0, 1>>, 0 >>
    ELSE << <<Cardinality(Good(ms)), Len(ms)>>, Cardinality(Good(ms)) >>

\* compute_similarity is not running.
NotMatching ==
    /\ des1 = 0
    /\ des2 = 0
    /\ matches = <<>>
    /\ similarity = << <<0, 1>>, 0 >>

\* No download_image and no _request is running.
NoTraffic ==
    /\ output_path = "none"
    /\ attempt = 0
    /\ at = "idle"
    /\ wire = <<>>
    /\ returned = "pending"

\* result["points_warning"] = None
NoWarning ==
    [current |-> 0, needed |-> 0, shortage |-> 0, servers_count |-> 0, days_to_recover |-> 0]

\* No ServerManager is at work.
NoManager ==
    /\ manager = [auto_renew |-> FALSE, renew_threshold |-> 0, renew_product_ids |-> {},
                  whitelist_parse_error |-> FALSE]
    /\ servers = <<>>
    /\ visited = 0
    /\ points = 0
    /\ renewed = <<>>
    /\ warnings = <<>>
    /\ sent = <<>>
    /\ details = <<>>
    /\ stage = "idle"
    /\ fetched = 0
    /\ listed = <<>>
    /\ points_warning = NoWarning

\* Nothing of os.environ is set, and the module server_manager did not load.
NoSetup ==
    /\ environ = [credentials |-> FALSE, RAINYUN_API_KEY |-> FALSE, AUTO_RENEW |-> FALSE,
                  RENEW_THRESHOLD_DAYS |-> 0, RENEW_PRODUCT_IDS |-> <<>>]
    /\ loaded = FALSE

\* No run() is under way.
NoRun ==
    /\ step = "idle"
    /\ driver = FALSE
    /\ ending = "none"
    /\ trail = <<>>

-----------------------------------------------------------------------------
(* The temp directory: a file is <<name, index, stamp>>, captcha.jpg being *)
(* <<"captcha", 0, _>>, sprite.jpg <<"sprite", 0, _>>, sprite_k.jpg        *)
(* <<"sprite", k, _>> and spec_i.jpg <<"spec", i, _>>; the stamp is the    *)
(* number of the attempt that wrote it, 0 for a file left by an earlier    *)
(* solve that used the same directory.                                     *)

\* clear_temp_dir: os.remove of every regular file and link of the directory
clear_temp_dir_none(fs) == fs
clear_temp_dir(fs) == {}

\* The file of this name, as a set: empty when there is none.
Lookup(fs, name, idx) == {f \in fs : f[1] = name /\ f[2] = idx}

\* open(path, "wb").write / cv2.imwrite done by attempt `stamp`
Write(fs, name, idx, stamp) == (fs \ Lookup(fs, name, idx)) \cup {<<name, idx, stamp>>}

\* What a solve may find in the directory: nothing (run() makes it with
\* mkdtemp), or the files of the solve before it (the same ctx).
StaleFiles ==
    {<<"captcha", 0, 0>>, <<"sprite", 0, 0>>, <<"sprite", 1, 0>>, <<"sprite", 2, 0>>,
     <<"sprite", 3, 0>>, <<"spec", 1, 0>>, <<"spec", 2, 0>>}

-----------------------------------------------------------------------------
(* The puzzles an attempt may download: what the detector finds in the     *)
(* background and what compute_similarity gives for each region and sprite *)
(* (similarities as levels 0 < 1 < 2 < 3: only their order and equality    *)
(* are used).                                                              *)

B1 == <<0, 0, 2, 2>>    \* centre 1,1
B2 == <<2, 0, 4, 2>>    \* centre 3,1
B3 == <<0, 2, 2, 4>>    \* centre 1,3
B4 == <<0, 0, 3, 3>>    \* centre 1,1: int(1.5) = 1, the centre of B1

Puzzles ==
    { [bboxes |-> <<>>, sims |-> <<>>],
      [bboxes |-> <<B1>>, sims |-> << <<3, 2, 1>> >>],
      [bboxes |-> <<B1, B2>>, sims |-> << <<3, 0, 1>>, <<0, 2, 0>> >>],
      [bboxes |-> <<B1, B2, B3>>, sims |-> << <<3, 0, 0>>, <<0, 2, 0>>, <<0, 0, 1>> >>],
      [bboxes |-> <<B1, B2, B3>>, sims |-> << <<3, 0, 0>>, <<0, 3, 0>>, <<0, 0, 3>> >>],
      [bboxes |-> <<B1, B2, B3>>, sims |-> << <<0, 0, 0>>, <<0, 0, 0>>, <<0, 0, 0>> >>],
      [bboxes |-> <<B1, B2, B3>>, sims |-> << <<3, 2, 0>>, <<0, 0, 1>>, <<1, 1, 0>> >>],
      [bboxes |-> <<B1, B4, B3>>, sims |-> << <<3, 0, 0>>, <<0, 2, 0>>, <<0, 0, 1>> >>],
      [bboxes |-> <<B3, B1, B2, B4>>,
       sims |-> << <<1, 1, 1>>, <<3, 0, 0>>, <<0, 2, 0>>, <<0, 0, 0>> >>] }

-----------------------------------------------------------------------------
(* Frames *)

NoLocals ==
    /\ band' = 0
    /\ bboxes' = <<>>
    /\ sims' = <<>>
    /\ scanI' = 0
    /\ result' = NoResult
    /\ gi' = 0

Log(e) == events' = Append(events, e)

\* An exception of class e leaves the try body of the running frame: the
\* except clause takes it, or it leaves the frame.
Raise_escapes(e) ==
    /\ exc' = e
    /\ pc' = "raising"
    /\ NoLocals
    /\ UNCHANGED <<variant, frames, ret, outcome>>
Raise(e) ==
    /\ exc' = e
    /\ pc' = IF Caught(e) THEN "handler" ELSE "raising"
    /\ IF Caught(e) THEN UNCHANGED locals ELSE NoLocals
    /\ UNCHANGED <<variant, frames, ret, outcome>>

\* return process_captcha(ctx, retry_count + 1), called from `site`
Call_loop(site) ==
    /\ pc' = "entry"
    /\ exc' = "none"
    /\ NoLocals
    /\ UNCHANGED <<variant, frames, ret, outcome>>
Call(site) ==
    /\ stack' = Append(stack, site)
    /\ retry_count' = retry_count + 1
    /\ pc' = "entry"
    /\ exc' = "none"
    /\ NoLocals
    /\ UNCHANGED <<variant, ret, outcome>>

\* return b
Return(b) ==
    /\ pc' = "returning"
    /\ ret' = b
    /\ exc' = "none"
    /\ NoLocals
    /\ UNCHANGED <<variant, frames, outcome>>

\* The next statement of the try body.
Goto(p) ==
    /\ pc' = p
    /\ UNCHANGED <<variant, frames, exc, ret, outcome>>

\* if not download_image(url, path): raise CaptchaRetryableError(...)
AfterDownload_unchecked(ok, next) ==
    /\ Goto(next)
    /\ UNCHANGED locals
AfterDownload(ok, next) ==
    IF ok
    THEN /\ Goto(next)
         /\ UNCHANGED locals
    ELSE Raise("CaptchaRetryableError")

Init ==
    /\ variant \in Variants
    /\ pc = "entry"
    /\ retry_count = 0
    /\ stack = <<>>
    /\ exc = "none"
    /\ ret = FALSE
    /\ outcome = "running"
    /\ band = 0
    /\ bboxes = <<>>
    /\ sims = <<>>
    /\ scanI = 0
    /\ result = NoResult
    /\ gi = 0
    /\ events = <<>>
    /\ attempts = 0
    /\ reloadFailed = FALSE
    /\ successSeen = FALSE
    /\ files \in {{}, StaleFiles}
    /\ reads = {}
    /\ captcha = NoPair
    /\ style = NoPair
    /\ slide_bg = NoPair
    /\ size = NoPair
    /\ final = NoPair
    /\ raw = 0
    /\ temp = NoPair
    /\ labels = <<>>
    /\ NotMatching
    /\ NoTraffic
    /\ NoManager
    /\ NoSetup
    /\ NoRun

-----------------------------------------------------------------------------
(* process_captcha, statement by statement *)

\* if retry_count >= CAPTCHA_RETRY_LIMIT: return False -- else the attempt starts
Entry ==
    /\ pc = "entry"
    /\ IF LimitReached(retry_count)
       THEN /\ Return(FALSE)
            /\ UNCHANGED <<history, disk, geometry, matcher, sheet, services>>
       ELSE /\ Goto("download_bg")
            /\ attempts' = IF attempts <= CAPTCHA_RETRY_LIMIT THEN attempts + 1 ELSE attempts
            /\ events' = <<>>
            /\ reads' = {}
            /\ captcha' = NoPair
            /\ style' = NoPair
            /\ slide_bg' = NoPair
            /\ size' = NoPair
            /\ final' = NoPair
            /\ raw' = 0
            /\ temp' = NoPair
            /\ labels' = <<>>
            /\ UNCHANGED <<locals, reloadFailed, successSeen, files, matcher, services>>

\* download_captcha_img, first half: clear_temp_dir, wait for slideBg, parse
\* the url out of its style, download_image to captcha.jpg
DownloadBg ==
    /\ pc = "download_bg"
    /\ \/ /\ AfterDownload(TRUE, "download_sprite")
          /\ events' = events \o << <<"clear", 0>>, <<"bg", 1>> >>
          /\ files' = Write(clear_temp_dir(files), "captcha", 0, attempts)
       \/ \E e \in {"TimeoutException", "ValueError", "Other"} :
             /\ Raise(e)
             /\ events' = events \o << <<"clear", 0>> >>
             /\ files' = clear_temp_dir(files)
       \/ /\ AfterDownload(FALSE, "download_sprite")
          /\ events' = events \o << <<"clear", 0>>, <<"bg", 0>> >>
          /\ files' = clear_temp_dir(files)
       \/ \E kept \in SUBSET files :     \* an os.remove raises OSError
             /\ kept # {}
             /\ Raise("Other")
             /\ files' = kept
             /\ UNCHANGED events
    /\ UNCHANGED <<attempts, reloadFailed, successSeen, reads, geometry, matcher, sheet, services>>

\* download_captcha_img, second half: wait for the instruction image, read its
\* src, download_image to sprite.jpg
DownloadSprite ==
    /\ pc = "download_sprite"
    /\ \/ /\ AfterDownload(TRUE, "check_captcha")
          /\ Log(<<"sprite", 1>>)
          /\ files' = Write(files, "sprite", 0, attempts)
          /\ raw' \in SheetWidths
       \/ \E e \in {"TimeoutException", "Other"} :
             /\ Raise(e)
             /\ UNCHANGED <<events, files, raw>>
       \/ /\ AfterDownload(FALSE, "check_captcha")
          /\ Log(<<"sprite", 0>>)
          /\ UNCHANGED <<files, raw>>
    /\ UNCHANGED <<attempts, reloadFailed, successSeen, reads, geometry, matcher, temp, labels, services>>

\* check_captcha: raw is None (sprite.jpg does not decode) -> False
CheckCaptchaUnreadable ==
    /\ pc = "check_captcha"
    /\ band = 0
    /\ raw = 0
    /\ Goto(AfterCheckCaptcha(FALSE))
    /\ Log(<<"invalid", 0>>)
    /\ reads' = reads \cup Lookup(files, "sprite", 0)
    /\ UNCHANGED <<locals, attempts, reloadFailed, successSeen, files, geometry, matcher, sheet, services>>

\* check_captcha, one turn of "for i in range(3)": cut band i, write it,
\* classify it; a degenerate label -> False; after the third band -> True
CheckCaptchaBand ==
    /\ pc = "check_captcha"
    /\ band < 3
    /\ Lookup(files, "sprite", 0) # {}
    /\ raw > 0
    /\ temp' = Slice(raw, band)
    /\ \/ \E label \in Labels, written \in BOOLEAN :    \* cv2.imwrite may give False
             /\ Slice(raw, band)[1] < Slice(raw, band)[2]
             /\ labels' = Append(labels, label)
             /\ files' = IF written THEN Write(files, "sprite", band + 1, attempts) ELSE files
             /\ Lookup(files', "sprite", band + 1) # {}
             /\ reads' = reads \cup Lookup(files, "sprite", 0) \cup Lookup(files', "sprite", band + 1)
             /\ IF Degenerate(label)
                THEN /\ Goto(AfterCheckCaptcha(FALSE))
                     /\ events' = events \o << <<"classify", band + 1>>, <<"invalid", band + 1>> >>
                     /\ UNCHANGED locals
                ELSE /\ Goto(IF band + 1 = 3 THEN AfterCheckCaptcha(TRUE) ELSE "check_captcha")
                     /\ events' = events \o
                           (IF band + 1 = 3
                            THEN << <<"classify", band + 1>>, <<"valid", 0>> >>
                            ELSE << <<"classify", band + 1>> >>)
                     /\ band' = band + 1
                     /\ UNCHANGED <<bboxes, sims, scanI, result, gi>>
       \/ \E e \in ModelErrors :
             /\ Slice(raw, band)[1] < Slice(raw, band)[2]
             /\ Raise(e)
             /\ Log(<<"classify", band + 1>>)
             /\ files' = Write(files, "sprite", band + 1, attempts)
             /\ reads' = reads \cup Lookup(files, "sprite", 0) \cup Lookup(files', "sprite", band + 1)
             /\ UNCHANGED labels
       \/ /\ \/ Lookup(files, "sprite", band + 1) = {}     \* not written: open() raises
             \/ Slice(raw, band)[1] = Slice(raw, band)[2]  \* no column: cv2.imwrite raises
          /\ Raise("Other")
          /\ reads' = reads \cup Lookup(files, "sprite", 0)
          /\ UNCHANGED <<events, files, labels>>
    /\ UNCHANGED <<attempts, reloadFailed, successSeen, geometry, matcher, raw, services>>

\* captcha = cv2.imread(captcha.jpg); None -> raise CaptchaRetryableError;
\* then the bytes are read
ReadCaptcha ==
    /\ pc = "read_captcha"
    /\ \/ /\ Lookup(files, "captcha", 0) # {}
          /\ Goto("detect")
          /\ captcha' \in Shapes
          /\ UNCHANGED locals
       \/ \E e \in {"CaptchaRetryableError", "Other"} :
             /\ Raise(e)
             /\ UNCHANGED captcha
    /\ reads' = reads \cup Lookup(files, "captcha", 0)
    /\ UNCHANGED <<history, files, style, slide_bg, size, final, matcher, sheet, services>>

\* bboxes = ctx.det.detection(captcha_b); result = dict()
Detect ==
    /\ pc = "detect"
    /\ \/ \E p \in Puzzles :
             /\ Goto("scan")
             /\ bboxes' = p.bboxes
             /\ sims' = p.sims
             /\ scanI' = 0
             /\ result' = NoResult
             /\ UNCHANGED <<band, gi>>
       \/ \E e \in ModelErrors : Raise(e)
    /\ Log(<<"detect", 0>>)
    /\ UNCHANGED <<attempts, reloadFailed, successSeen, disk, geometry, matcher, sheet, services>>

\* one turn of "for i in range(len(bboxes))": cut the region, write
\* spec_i.jpg, compare it with the 3 sprites, keep the better matches
ScanRegion ==
    /\ pc = "scan"
    /\ scanI < Len(bboxes)
    /\ \E written \in BOOLEAN :       \* cv2.imwrite may give False
          files' = IF written THEN Write(files, "spec", scanI + 1, attempts) ELSE files
    /\ \/ /\ Lookup(files', "spec", scanI + 1) # {}
          /\ Goto("scan")
          /\ result' = ScanRegionInto(result, bboxes[scanI + 1], sims[scanI + 1])
          /\ scanI' = scanI + 1
          /\ reads' = reads \cup Lookup(files', "spec", scanI + 1)
                          \cup UNION {Lookup(files', "sprite", j) : j \in Sprites}
          /\ UNCHANGED <<band, bboxes, sims, gi>>
       \/ /\ Raise("Other")
          /\ reads' = reads \cup Lookup(files', "spec", scanI + 1)
                          \cup Lookup(files', "sprite", 1)
    /\ Log(<<"similarity", scanI + 1>>)
    /\ UNCHANGED <<attempts, reloadFailed, successSeen, geometry, matcher, sheet, services>>

\* if check_answer(result): ... else: logger.error(...)
CheckAnswer ==
    /\ pc = "scan"
    /\ scanI = Len(bboxes)
    /\ IF check_answer(variant, result)
       THEN /\ Goto("lookup")
            /\ Log(<<"answer", 1>>)
       ELSE /\ Goto("refresh")
            /\ Log(<<"answer", 0>>)
    /\ gi' = 0
    /\ UNCHANGED <<band, bboxes, sims, scanI, result, attempts, reloadFailed, successSeen, disk, geometry, matcher, sheet, services>>

\* gesture loop, first half of a turn: wait for slideBg, read its style, take
\* width and height from the style or else from the element's size
GestureLookup ==
    /\ pc = "lookup"
    /\ \/ \E st \in Styles, el \in ElementSizes :
             /\ style' = st
             /\ slide_bg' = el
             /\ IF RenderedSize(st, el) # NoSize
                THEN /\ Goto("gesture")
                     /\ Log(<<"lookup", gi + 1>>)
                     /\ size' = RenderedSize(st, el)
                     /\ UNCHANGED locals
                ELSE /\ Raise("ValueError")
                     /\ Log(<<"lookup_failed", gi + 1>>)
                     /\ UNCHANGED size
       \/ \E e \in DriverErrors :
             /\ Raise(e)
             /\ Log(<<"lookup_failed", gi + 1>>)
             /\ UNCHANGED <<style, slide_bg, size>>
    /\ UNCHANGED <<attempts, reloadFailed, successSeen, disk, captcha, final, matcher, sheet, services>>

\* gesture loop, second half of a turn:
\* ActionChains(...).move_to_element_with_offset(...).click().perform()
GestureClick ==
    /\ pc = "gesture"
    /\ \/ /\ Goto(GestureLoop(gi))
          /\ Log(<<"gesture", gi + 1>>)
          /\ gi' = gi + 1
          /\ UNCHANGED <<band, bboxes, sims, scanI, result>>
       \/ \E e \in DriverErrors :
             /\ Raise(e)
             /\ Log(<<"gesture_failed", gi + 1>>)
    /\ final' = << Axis(PointOf(result[position_key(gi + 1)])[1], captcha[1], size[1]),
                   Axis(PointOf(result[position_key(gi + 1)])[2], captcha[2], size[2]) >>
    /\ UNCHANGED <<attempts, reloadFailed, successSeen, disk, captcha, style, slide_bg, size, matcher, sheet, services>>

\* confirm = ctx.wait.until(element_to_be_clickable(CAPTCHA_SUBMIT));
\* confirm.click()
Submit ==
    /\ pc = "submit"
    /\ \/ /\ Goto("verify")
          /\ Log(<<"submit", 1>>)
          /\ UNCHANGED locals
       \/ /\ Raise("TimeoutException")
          /\ Log(<<"submit_missing", 0>>)
       \/ \E e \in DriverErrors :
             /\ Raise(e)
             /\ Log(<<"submit", 0>>)
    /\ UNCHANGED <<attempts, reloadFailed, successSeen, disk, geometry, matcher, sheet, services>>

\* time.sleep(5); result_el = ctx.wait.until(...CAPTCHA_OP);
\* if 'show-success' in result_el.get_attribute("class"): return True
Verify ==
    /\ pc = "verify"
    /\ \/ \E cls \in IndicatorClasses :
             IF cls = "none"
             THEN /\ Raise("Other")      \* 'show-success' in None: TypeError
                  /\ Log(<<cls, 0>>)
                  /\ UNCHANGED successSeen
             ELSE IF IsSuccess(cls)
             THEN /\ Return(TRUE)
                  /\ Log(<<cls, 0>>)
                  /\ successSeen' = (successSeen \/ cls = "show-success")
             ELSE /\ Goto("refresh")
                  /\ Log(<<cls, 0>>)
                  /\ UNCHANGED <<locals, successSeen>>
       \/ \E e \in DriverErrors :
             /\ Raise(e)
             /\ UNCHANGED <<events, successSeen>>
    /\ UNCHANGED <<attempts, reloadFailed, disk, geometry, matcher, sheet, services>>

-----------------------------------------------------------------------------
(* Refresh, retry, and the way out *)

\* Whether the refresh that follows a failed attempt (invalid puzzle, bad
\* answer, rejection) swallows its own errors.  src/rainyun.py calls
\* refresh_captcha(), whose "except Exception" returns False; in
\* src/0x6768/rainyun.py the find_element and the click stand bare in the try body.
BodyRefreshGuarded_never(v) == FALSE
BodyRefreshGuarded(v) == v = "main"

\* Whether the recursive call made in the except handler stands inside a
\* "try: ... except Exception: return False".  It does in
\* src/0x6768/rainyun.py; in src/rainyun.py only refresh_captcha() is guarded.
HandlerCallGuarded_always(v) == TRUE
HandlerCallGuarded(v) == v = "alt"

\* The refresh at the end of the try body, then the recursive call.
Refresh ==
    /\ pc = "refresh"
    /\ \/ /\ Call("body")
          /\ Log(<<"reload", 1>>)
          /\ UNCHANGED reloadFailed
       \/ \E e \in DriverErrors :
             /\ IF BodyRefreshGuarded(variant) THEN Return(FALSE) ELSE Raise(e)
             /\ Log(<<"reload", 0>>)
             /\ reloadFailed' = TRUE
    /\ UNCHANGED <<attempts, successSeen, disk, geometry, matcher, sheet, services>>

\* The except handler: log, refresh, then the recursive call; a failed
\* refresh returns False.
Handler_noRefresh ==
    /\ pc = "handler"
    /\ Call("handler")
    /\ UNCHANGED <<history, disk, geometry, matcher, sheet, services>>
Handler ==
    /\ pc = "handler"
    /\ \/ /\ Call("handler")
          /\ Log(<<"reload", 1>>)
          /\ UNCHANGED reloadFailed
       \/ /\ Return(FALSE)
          /\ Log(<<"reload", 0>>)
          /\ reloadFailed' = TRUE
    /\ UNCHANGED <<attempts, successSeen, disk, geometry, matcher, sheet, services>>

Pop ==
    /\ stack' = SubSeq(stack, 1, Len(stack) - 1)
    /\ retry_count' = retry_count - 1

\* An exception leaves the running frame: it reaches the caller of
\* process_captcha(ctx), or the frame below at the place of its call.
Propagate ==
    /\ pc = "raising"
    /\ IF stack = <<>>
       THEN /\ pc' = "done"
            /\ outcome' = "raised"
            /\ UNCHANGED <<frames, exc, ret>>
       ELSE /\ Pop
            /\ IF stack[Len(stack)] = "handler"
               THEN IF HandlerCallGuarded(variant)
                    THEN pc' = "returning" /\ ret' = FALSE /\ exc' = "none"
                    ELSE pc' = "raising" /\ UNCHANGED <<exc, ret>>
               ELSE /\ pc' = IF Caught(exc) THEN "handler" ELSE "raising"
                    /\ UNCHANGED <<exc, ret>>
            /\ UNCHANGED outcome
    /\ UNCHANGED <<variant, locals, history, disk, geometry, matcher, sheet, services>>

\* A value leaves the running frame: every call is "return process_captcha(...)",
\* so the frame below returns it as it is.
ReturnUp ==
    /\ pc = "returning"
    /\ IF stack = <<>>
       THEN /\ pc' = "done"
            /\ outcome' = IF ret THEN "true" ELSE "false"
            /\ UNCHANGED frames
       ELSE /\ Pop
            /\ pc' = "returning"
            /\ UNCHANGED outcome
    /\ UNCHANGED <<variant, exc, ret, locals, history, disk, geometry, matcher, sheet, services>>

Next ==
    \/ Entry
    \/ DownloadBg
    \/ DownloadSprite
    \/ CheckCaptchaUnreadable
    \/ CheckCaptchaBand
    \/ ReadCaptcha
    \/ Detect
    \/ ScanRegion
    \/ CheckAnswer
    \/ GestureLookup
    \/ GestureClick
    \/ Submit
    \/ Verify
    \/ Refresh
    \/ Handler
    \/ Propagate
    \/ ReturnUp

Spec == Init /\ [][Next]_vars

\* Every call made by process_captcha returns or raises in finite time, so a
\* solve that can take a step takes one.
FairSpec == Spec /\ WF_vars(Next)

-----------------------------------------------------------------------------
(* The scan loop and check_answer of src/rainyun.py on every detector      *)
(* output of up to MaxRegions regions: the loop is fed one region at a     *)
(* time, with any box of Boxes and any similarities, and may end after any *)
(* region.  bboxes and sims hold the regions fed so far.                   *)

MaxRegions == 3

Boxes == {B1, B2, B3, B4}
SimLevels == {0, 1}

ScanInit ==
    /\ variant = "main"
    /\ pc = "scan"
    /\ retry_count = 0
    /\ stack = <<>>
    /\ exc = "none"
    /\ ret = FALSE
    /\ outcome = "running"
    /\ band = 3
    /\ bboxes = <<>>
    /\ sims = <<>>
    /\ scanI = 0
    /\ result = NoResult
    /\ gi = 0
    /\ events = <<>>
    /\ attempts = 1
    /\ reloadFailed = FALSE
    /\ successSeen = FALSE
    /\ files = {<<"captcha", 0, 1>>, <<"sprite", 0, 1>>, <<"sprite", 1, 1>>,
                <<"sprite", 2, 1>>, <<"sprite", 3, 1>>}
    /\ reads = files
    /\ captcha = <<4, 4>>
    /\ style = NoPair
    /\ slide_bg = NoPair
    /\ size = NoPair
    /\ final = NoPair
    /\ raw = 7
    /\ temp = Slice(7, 2)
    /\ labels = <<"x", "x", "x">>
    /\ NotMatching
    /\ NoTraffic
    /\ NoManager
    /\ NoSetup
    /\ NoRun

\* One more region from the detector, and the loop's turn for it.
ScanFeed ==
    /\ pc = "scan"
    /\ Len(bboxes) < MaxRegions
    /\ \E b \in Boxes, row \in [Sprites -> SimLevels] :
          /\ bboxes' = Append(bboxes, b)
          /\ sims' = Append(sims, row)
          /\ result' = ScanRegionInto(result, b, row)
    /\ scanI' = scanI + 1
    /\ files' = Write(files, "spec", scanI + 1, attempts)
    /\ reads' = reads \cup Lookup(files', "spec", scanI + 1)
    /\ UNCHANGED <<variant, pc, frames, exc, ret, outcome, band, gi, history, geometry, matcher, sheet, services>>

ScanNext == ScanFeed \/ CheckAnswer

SpecScan == ScanInit /\ [][ScanNext]_vars

-----------------------------------------------------------------------------
(* The gesture loop on every background of up to MaxRaw x MaxRaw pixels,   *)
(* rendered at up to MaxRendered x MaxRendered, and on the background of   *)
(* 300 x 200 rendered at 150 x 100: the answer holds a point for sprite 1  *)
(* and the next two points of the image for sprites 2 and 3.               *)

MaxRaw == 4
MaxRendered == 6

\* The raw points of an image: the centres of the regions inside it.
Points(shape) == (0..(shape[1] - 1)) \X (0..(shape[2] - 1))
\* The next point of the image, row by row, the first after the last.
Succ(p, shape) ==
    IF p[1] + 1 < shape[1] THEN <<p[1] + 1, p[2]>>
    ELSE IF p[2] + 1 < shape[2] THEN <<0, p[2] + 1>>
    ELSE <<0, 0>>
\* A region of one pixel whose centre is p: int((x + x + 1) / 2) = x.
BoxAt(p) == <<p[1], p[2], p[1] + 1, p[2] + 1>>

MapInputs ==
    UNION {{<<shape, p>> : p \in Points(shape)} : shape \in (2..MaxRaw) \X (2..MaxRaw)}
    \cup {<< <<300, 200>>, <<150, 100>> >>, << <<300, 200>>, <<0, 0>> >>}
MapSizes == ((1..MaxRendered) \X (1..MaxRendered)) \cup {<<150, 100>>}

MapInit ==
    \E in \in MapInputs :
       LET shape == in[1]
           p1 == in[2]
           p2 == Succ(p1, shape)
           p3 == Succ(p2, shape)
           rows == << <<1, 0, 0>>, <<0, 1, 0>>, <<0, 0, 1>> >>
           boxes == <<BoxAt(p1), BoxAt(p2), BoxAt(p3)>>
       IN /\ captcha = shape
          /\ bboxes = boxes
          /\ sims = rows
          /\ result = ScanRegionInto(ScanRegionInto(ScanRegionInto(NoResult,
                          boxes[1], rows[1]), boxes[2], rows[2]), boxes[3], rows[3])
    /\ variant = "main"
    /\ pc = "lookup"
    /\ retry_count = 0
    /\ stack = <<>>
    /\ exc = "none"
    /\ ret = FALSE
    /\ outcome = "running"
    /\ band = 3
    /\ scanI = 3
    /\ gi = 0
    /\ events = << <<"clear", 0>>, <<"bg", 1>>, <<"sprite", 1>>, <<"classify", 1>>,
                   <<"classify", 2>>, <<"classify", 3>>, <<"valid", 0>>, <<"detect", 0>>,
                   <<"similarity", 1>>, <<"similarity", 2>>, <<"similarity", 3>>,
                   <<"answer", 1>> >>
    /\ attempts = 1
    /\ reloadFailed = FALSE
    /\ successSeen = FALSE
    /\ files = {<<"captcha", 0, 1>>, <<"sprite", 0, 1>>, <<"sprite", 1, 1>>,
                <<"sprite", 2, 1>>, <<"sprite", 3, 1>>, <<"spec", 1, 1>>,
                <<"spec", 2, 1>>, <<"spec", 3, 1>>}
    /\ reads = files
    /\ style = NoPair
    /\ slide_bg = NoPair
    /\ size = NoPair
    /\ final = NoPair
    /\ raw = 7
    /\ temp = Slice(7, 2)
    /\ labels = <<"x", "x", "x">>
    /\ NotMatching
    /\ NoTraffic
    /\ NoManager
    /\ NoSetup
    /\ NoRun

\* The lookup of a gesture, slide_bg having any size and a style that says it.
MapFeed ==
    /\ pc = "lookup"
    /\ \E sz \in MapSizes :
          /\ style' = sz
          /\ slide_bg' = sz
          /\ size' = RenderedSize(sz, sz)
    /\ Goto("gesture")
    /\ Log(<<"lookup", gi + 1>>)
    /\ UNCHANGED <<locals, attempts, reloadFailed, successSeen, disk, captcha, final, matcher, sheet, services>>

MapNext == MapFeed \/ GestureClick

SpecMap == MapInit /\ [][MapNext]_vars

-----------------------------------------------------------------------------
(* check_captcha on every sprite sheet of up to MaxSheet columns, and on   *)
(* one that does not decode.                                               *)

MaxSheet == 9

BandsInit ==
    /\ variant \in Variants
    /\ pc = "check_captcha"
    /\ retry_count = 0
    /\ stack = <<>>
    /\ exc = "none"
    /\ ret = FALSE
    /\ outcome = "running"
    /\ band = 0
    /\ bboxes = <<>>
    /\ sims = <<>>
    /\ scanI = 0
    /\ result = NoResult
    /\ gi = 0
    /\ events = << <<"clear", 0>>, <<"bg", 1>>, <<"sprite", 1>> >>
    /\ attempts = 1
    /\ reloadFailed = FALSE
    /\ successSeen = FALSE
    /\ files = {<<"captcha", 0, 1>>, <<"sprite", 0, 1>>}
    /\ reads = {}
    /\ captcha = NoPair
    /\ style = NoPair
    /\ slide_bg = NoPair
    /\ size = NoPair
    /\ final = NoPair
    /\ raw \in 0..MaxSheet
    /\ temp = NoPair
    /\ labels = <<>>
    /\ NotMatching
    /\ NoTraffic
    /\ NoManager
    /\ NoSetup
    /\ NoRun

BandsNext == CheckCaptchaUnreadable \/ CheckCaptchaBand

SpecBands == BandsInit /\ [][BandsNext]_vars

-----------------------------------------------------------------------------
(* compute_similarity on every outcome of the matcher for up to MaxDesc    *)
(* descriptors an image: one entry per descriptor of the first image, of   *)
(* the 2 nearest descriptors of the second (of 1 when it has only 1), the  *)
(* nearer first, each with its distance.                                   *)

MaxDesc == 3

\* Distances: 4 < 0.8 * 5 fails by equality, 1 < 0.8 * 4 holds.
Dists == {1, 4, 5}
Entries(n) ==
    IF n = 1 THEN {<<d>> : d \in Dists}
    ELSE {e \in Dists \X Dists : e[1] <= e[2]}

SimInit ==
    /\ variant \in Variants
    /\ pc = "compute_similarity"
    /\ retry_count = 0
    /\ stack = <<>>
    /\ exc = "none"
    /\ ret = FALSE
    /\ outcome = "running"
    /\ band = 3
    /\ bboxes = <<B1>>
    /\ sims = <<>>
    /\ scanI = 0
    /\ result = NoResult
    /\ gi = 0
    /\ events = << <<"clear", 0>>, <<"bg", 1>>, <<"sprite", 1>>, <<"classify", 1>>,
                   <<"classify", 2>>, <<"classify", 3>>, <<"valid", 0>>, <<"detect", 0>> >>
    /\ attempts = 1
    /\ reloadFailed = FALSE
    /\ successSeen = FALSE
    /\ files = {<<"captcha", 0, 1>>, <<"sprite", 0, 1>>, <<"sprite", 1, 1>>,
                <<"sprite", 2, 1>>, <<"sprite", 3, 1>>, <<"spec", 1, 1>>}
    /\ reads = files
    /\ captcha = <<4, 4>>
    /\ style = NoPair
    /\ slide_bg = NoPair
    /\ size = NoPair
    /\ final = NoPair
    /\ raw = 7
    /\ temp = Slice(7, 2)
    /\ labels = <<"x", "x", "x">>
    /\ des1 \in 0..MaxDesc
    /\ des2 \in 0..MaxDesc
    /\ matches \in IF des1 = 0 \/ des2 = 0 THEN {<<>>} ELSE [1..des1 -> Entries(des2)]
    /\ similarity = << <<0, 1>>, 0 >>
    /\ NoTraffic
    /\ NoManager
    /\ NoSetup
    /\ NoRun

\* The body of compute_similarity, the descriptors and the matches being
\* what SIFT and the matcher gave.
ComputeSimilarity ==
    /\ pc = "compute_similarity"
    /\ pc' = "compared"
    /\ similarity' = compute_similarity(des1, des2, matches)
    /\ UNCHANGED <<variant, frames, exc, ret, outcome, locals, history, disk, geometry,
                   sheet, des1, des2, matches, services>>

SimNext == ComputeSimilarity

SpecSim == SimInit /\ [][SimNext]_vars

-----------------------------------------------------------------------------
(* Vocabulary of the properties *)

Has(log, e) == \E i \in 1..Len(log) : log[i] = e
HasKind(log, k) == \E i \in 1..Len(log) : log[i][1] = k
Last(log) == log[Len(log)]
\* The step appends exactly the event e.
Logs(e) == events' = Append(events, e)
\* The step appends an event of one of the kinds.
LogsKind(kinds) == Len(events') > Len(events) /\ Last(events')[1] \in kinds
\* The step starts an attempt.
StartsAttempt == pc = "entry" /\ pc' = "download_bg"

\* The scan recorded a centre for each of the 3 sprites, and the 3 centres
\* are pairwise distinct.
Distinct3(d) ==
    /\ \A j \in Sprites : position_key(j) \in DOMAIN d
    /\ \A j, k \in Sprites : j # k => d[position_key(j)] # d[position_key(k)]

\* The events of a click on the puzzle or on the submit control, done or tried.
ClickKinds == {"gesture", "gesture_failed", "submit"}
\* The events of the matching work.
MatchingKinds == {"detect", "similarity"}

-----------------------------------------------------------------------------
(* Properties *)

\* C1: a solve started with retry_count 0 never starts more than
\* CAPTCHA_RETRY_LIMIT attempts, whatever fails, raises or is refreshed.
C1_AttemptsBounded == attempts <= CAPTCHA_RETRY_LIMIT

\* C1's case: the whole budget was used, every attempt having failed.
C1_Witness == pc = "done" /\ outcome = "false" /\ attempts = CAPTCHA_RETRY_LIMIT

\* C2: when every call returns or raises in finite time (FairSpec), every
\* solve ends, and one in which no attempt read the success marker ends in
\* failure: process_captcha returns False or raises.
C2_Terminates ==
    /\ <>(pc = "done")
    /\ [](pc = "done" /\ ~successSeen => outcome \in {"false", "raised"})

\* C2's case: a solve that failed in every attempt the budget allows has ended.
C2_Witness ==
    /\ pc = "done"
    /\ ~successSeen
    /\ attempts = CAPTCHA_RETRY_LIMIT
    /\ Has(events, <<"show-error", 0>>)

\* C3: a step clicks on the puzzle or on the submit control only when the
\* scan of that attempt recorded a centre for each of the 3 sprites and the
\* 3 centres are pairwise distinct; when they are not, the step after the
\* scan goes to the refresh and clicks nothing.
C3_ClickOnlyIfDistinct ==
    [][ /\ LogsKind(ClickKinds) => Distinct3(result)
        /\ (pc = "scan" /\ scanI = Len(bboxes) /\ ~Distinct3(result))
              => (pc' = "refresh" /\ ~\E k \in ClickKinds : HasKind(events', k)) ]_vars

\* C3's case: 3 gestures were clicked on 3 distinct centres.
C3_Witness == pc = "submit" /\ Has(events, <<"gesture", 3>>) /\ Distinct3(result)

\* C4: in an attempt whose check_captcha reported the puzzle invalid neither
\* the detector nor compute_similarity is called, and the next attempt starts
\* only after a click of the reload control that succeeded.
C4_InvalidSkipsMatching ==
    [][ /\ HasKind(events', "invalid") => ~\E k \in MatchingKinds : HasKind(events', k)
        /\ (HasKind(events, "invalid") /\ StartsAttempt) => Last(events) = <<"reload", 1>> ]_vars

\* C4's case: an attempt found a degenerate band, the reload control was
\* clicked, and the next attempt is about to start.
C4_Witness ==
    /\ Has(events, <<"invalid", 2>>)
    /\ Last(events) = <<"reload", 1>>
    /\ pc = "entry"
    /\ ~LimitReached(retry_count)

C6_NoAttemptAfterReloadFailure ==
    [][ reloadFailed =>
          /\ ~StartsAttempt
          /\ attempts' = attempts
          /\ events' = events \/ LogsKind({"reload"}) ]_vars

\* The scan so far, column j: the greatest similarity of sprite j, and the
\* first region that has it.
ColMax(j) ==
    CHOOSE m \in {sims[i][j] : i \in 1..scanI} : \A i \in 1..scanI : sims[i][j] <= m
FirstBest(j) ==
    CHOOSE i \in 1..scanI : sims[i][j] = ColMax(j) /\ \A k \in 1..(i - 1) : sims[k][j] < ColMax(j)

\* Whatever was scanned, the dict holds for each sprite its greatest
\* similarity and the centre of the first region that has it.
FirstBestRecorded ==
    IF scanI = 0 THEN result = NoResult
    ELSE \A j \in Sprites :
            /\ result[similarity_key(j)] = FloatVal(ColMax(j))
            /\ result[position_key(j)] = Position(bboxes[FirstBest(j)])

\* The regions that match sprite j better than every other region does
\* (one region, or none).
UniquelyBest(j) ==
    {i \in 1..scanI : \A k \in 1..scanI : k # i => sims[k][j] < sims[i][j]}
\* Every sprite has its uniquely best region, and no two sprites the same.
EachUniquelyBest ==
    /\ \A j \in Sprites : UniquelyBest(j) # {}
    /\ \A j, k \in Sprites : j # k => UniquelyBest(j) # UniquelyBest(k)
Best(j) == CHOOSE i \in UniquelyBest(j) : TRUE
DistinctCentres ==
    \A j, k \in Sprites : j # k => Position(bboxes[Best(j)]) # Position(bboxes[Best(k)])
MapsToBest == \A j \in Sprites : result[position_key(j)] = Position(bboxes[Best(j)])

\* C7 as stated: the first-best region of each sprite is recorded, and with
\* 3 regions each uniquely best for a different sprite the result is these
\* 3 mappings and check_answer accepts it.
C7_Original ==
    /\ FirstBestRecorded
    /\ (scanI = 3 /\ EachUniquelyBest) => (MapsToBest /\ pc # "refresh")

\* C7, amended: ... and check_answer accepts it when the centres of the 3
\* regions are pairwise distinct; it rejects it when two of the regions share
\* their centre.
C7_FirstBestWins ==
    /\ FirstBestRecorded
    /\ EachUniquelyBest =>
          /\ MapsToBest
          /\ DistinctCentres => pc # "refresh"
          /\ ~DistinctCentres => pc # "lookup"

\* C7's case: 3 regions, each uniquely best for a different sprite, with 3
\* distinct centres, scanned and accepted.
C7_Witness ==
    /\ scanI = 3
    /\ pc = "lookup"
    /\ EachUniquelyBest
    /\ DistinctCentres
    /\ Best(1) = 2

\* The gestures and the submit of an attempt, as they are logged when they
\* succeed, and what is logged instead when one of them fails.
Plan == << <<"lookup", 1>>, <<"gesture", 1>>, <<"lookup", 2>>, <<"gesture", 2>>,
           <<"lookup", 3>>, <<"gesture", 3>>, <<"submit", 1>> >>
FailureOf(e) ==
    IF e[1] = "lookup" THEN {<<"lookup_failed", e[2]>>}
    ELSE IF e[1] = "gesture" THEN {<<"gesture_failed", e[2]>>}
    ELSE {<<"submit", 0>>, <<"submit_missing", 0>>}
ActKinds == {"lookup", "lookup_failed", "gesture", "gesture_failed", "submit", "submit_missing"}
\* The events of the attempt from its i-th on.
From(i) == SubSeq(events, i, Len(events))
\* log follows Plan: step by step, until it ends, or until a step fails, and
\* after a failure or after the submit it holds no gesture and no submit.
FollowsPlan(log) ==
    \A i \in 1..Len(log) :
        IF i <= Len(Plan) /\ \A k \in 1..(i - 1) : log[k] = Plan[k]
        THEN log[i] = Plan[i] \/ log[i] \in FailureOf(Plan[i])
        ELSE log[i][1] \notin ActKinds

\* C8: in an attempt whose answer is accepted the gestures are done for
\* sprite 1, 2, 3 in this order, each right after a new lookup of slideBg
\* and its size, the submit control is clicked after the third gesture only,
\* and after a step that raised nothing more is clicked; an attempt whose
\* answer is not accepted does none of this.
C8_GestureOrder ==
    /\ \A i \in 1..Len(events) : events[i] = <<"answer", 1>> => FollowsPlan(From(i + 1))
    /\ ~Has(events, <<"answer", 1>>) => ~\E k \in ActKinds : HasKind(events, k)

\* C8's case: the 3 gestures and the submit click are done.
C8_Witness == pc = "verify" /\ Last(events) = <<"submit", 1>>

\* C9: in src/rainyun.py an exception of another class than the 3 of the
\* except clause, raised by a step of an attempt, leaves every frame: no
\* refresh and no attempt follows it, and the caller gets the exception, not
\* False.
C9_OtherPropagates ==
    [][ variant = "main" =>
          /\ (exc # "Other" /\ exc' = "Other") => pc' = "raising"
          /\ pc = "raising" =>
                /\ exc = "Other"
                /\ UNCHANGED <<exc, events, attempts>>
                /\ pc' = "raising" \/ (pc' = "done" /\ outcome' = "raised") ]_vars

\* C9's case: the exception came out of a later attempt, the earlier ones
\* having ended in the except handler and in the refresh of the try body.
C9_Witness ==
    /\ variant = "main"
    /\ pc = "done"
    /\ outcome = "raised"
    /\ attempts = 3

\* C10 as stated: once the submit control was found missing, no further
\* attempt starts.
C10_Original == [][ Has(events, <<"submit_missing", 0>>) => ~StartsAttempt ]_vars

\* C10, amended: a missing submit control is a TimeoutException of the wait,
\* handled like every retryable failure: nothing is clicked or read after it
\* in that attempt, the except handler clicks the reload control, and the
\* next attempt starts after a click that succeeded.
C10_SubmitMissingRetries ==
    [][ /\ Logs(<<"submit_missing", 0>>) => pc' = "handler"
        /\ Has(events, <<"submit_missing", 0>>) =>
              /\ Last(events) = <<"submit_missing", 0>> => pc = "handler"
              /\ events' = events \/ LogsKind({"reload"}) \/ StartsAttempt
              /\ StartsAttempt => Last(events) = <<"reload", 1>> ]_vars

\* C10's case: the submit control was missing, the reload control was
\* clicked, and the next attempt is about to start.
C10_Witness ==
    /\ Has(events, <<"submit_missing", 0>>)
    /\ Last(events) = <<"reload", 1>>
    /\ pc = "entry"
    /\ ~LimitReached(retry_count)

\* The classes of the except clause.
Retryable == {"TimeoutException", "ValueError", "CaptchaRetryableError"}

\* C11: no TimeoutException, ValueError or CaptchaRetryableError raised in an
\* attempt leaves process_captcha: the step that raises it lands in the
\* except handler, which clicks the reload control and calls
\* process_captcha(ctx, retry_count + 1), and that call starts an attempt
\* while budget remains and returns False when none does (a reload click
\* that fails returns False at once); what the caller gets is never one of
\* these exceptions.
C11_RetryableNeverEscapes ==
    [][ /\ pc' \in {"raising", "done"} => exc' \notin Retryable
        /\ (exc' \in Retryable /\ exc = "none") => pc' = "handler"
        /\ pc = "handler" =>
              /\ exc \in Retryable
              /\ \/ Logs(<<"reload", 1>>) /\ pc' = "entry" /\ retry_count' = retry_count + 1
                 \/ Logs(<<"reload", 0>>) /\ pc' = "returning" /\ ~ret'
        /\ pc = "entry" =>
              IF retry_count < CAPTCHA_RETRY_LIMIT
              THEN StartsAttempt /\ retry_count' = retry_count
              ELSE pc' = "returning" /\ ~ret' /\ attempts' = attempts ]_vars

\* C11's case: the last attempt the budget allows failed to download the
\* background, the reload control was clicked, and the caller got False.
C11_Witness ==
    /\ pc = "done"
    /\ outcome = "false"
    /\ attempts = CAPTCHA_RETRY_LIMIT
    /\ Has(events, <<"bg", 0>>)
    /\ Last(events) = <<"reload", 1>>

\* The two terminal failures, as the log of the solve shows them: the last
\* thing done was a reload click that failed, or a reload click that
\* succeeded followed by a call that found the budget used up.
ReloadUnavailable == pc = "done" /\ events # <<>> /\ Last(events) = <<"reload", 0>>
BudgetExhausted == pc = "done" /\ events # <<>> /\ Last(events) = <<"reload", 1>>

\* C12 as stated: the caller can tell an unreachable reload control from an
\* exhausted budget by what process_captcha gives it: the budget's end gives
\* False (if retry_count >= CAPTCHA_RETRY_LIMIT: return False), so the
\* unreachable reload control gives something else.
C12_Original ==
    /\ BudgetExhausted => outcome = "false"
    /\ ReloadUnavailable => outcome # "false"

\* C12, amended: process_captcha gives its caller the bare False, and no
\* reason, on both terminal failures; in src/rainyun.py always, in
\* src/0x6768/rainyun.py unless the reload click of the try body raised an
\* exception of a class outside the except clause, which the caller gets.
C12_FalseWhateverReason ==
    /\ BudgetExhausted => outcome = "false"
    /\ ReloadUnavailable =>
          IF variant = "main" THEN outcome = "false" ELSE outcome \in {"false", "raised"}

\* C12's case: the reload control was unreachable after the second attempt
\* and the caller got False.
C12_Witness ==
    /\ variant = "main"
    /\ ReloadUnavailable
    /\ outcome = "false"
    /\ attempts = 2

\* C13: download_captcha_img empties the temp directory before it downloads
\* anything, so that from then on the directory holds files of the current
\* attempt only, and every file an attempt reads (captcha.jpg, sprite.jpg,
\* sprite_k.jpg, spec_i.jpg) is one the same attempt wrote: never a file of
\* an earlier attempt or of an earlier solve.
C13_NoStaleRead ==
    /\ \A r \in reads : r[3] = attempts
    /\ HasKind(events, "clear") =>
          /\ events[1] = <<"clear", 0>>
          /\ \A f \in files : f[3] = attempts
    /\ \A k \in {"bg", "sprite"} : HasKind(events, k) => events[1] = <<"clear", 0>>

\* C13's case: the second attempt of a solve that found old files in the
\* directory has read its background, its sprites and its second region.
C13_Witness ==
    /\ attempts = 2
    /\ {<<"captcha", 0, 2>>, <<"sprite", 0, 2>>, <<"sprite", 3, 2>>, <<"spec", 2, 2>>} \subseteq reads
    /\ pc = "scan"

\* An image download of the current attempt failed.
DownloadFailed(log) == Has(log, <<"bg", 0>>) \/ Has(log, <<"sprite", 0>>)
\* The events of a call of the classifier, the detector or compute_similarity.
RecognitionKinds == {"classify", "detect", "similarity"}

\* C14: a download_image that gives False (its own retries used up) ends the
\* attempt with CaptchaRetryableError in the except handler: the attempt
\* calls no classifier, detector or matcher, and does not ask for the sprite
\* sheet when the background failed; nothing follows in it but the reload
\* click, and the attempt that starts after a click that succeeded, budget
\* remaining, has the attempt number of the failed one plus 1.
C14_DownloadFailureRetries ==
    [][ /\ (Logs(<<"bg", 0>>) \/ Logs(<<"sprite", 0>>)) =>
              pc' = "handler" /\ exc' = "CaptchaRetryableError"
        /\ Has(events', <<"bg", 0>>) => ~HasKind(events', "sprite")
        /\ DownloadFailed(events') => ~\E k \in RecognitionKinds : HasKind(events', k)
        /\ DownloadFailed(events) =>
              /\ events' = events \/ Logs(<<"reload", 1>>) \/ Logs(<<"reload", 0>>) \/ StartsAttempt
              /\ (pc = "entry" /\ retry_count < CAPTCHA_RETRY_LIMIT) => StartsAttempt
              /\ StartsAttempt =>
                    /\ Last(events) = <<"reload", 1>>
                    /\ attempts' = attempts + 1
                    /\ retry_count' + 1 = attempts' ]_vars

\* C14's case: the sprite sheet of the fourth attempt could not be
\* downloaded, the reload control was clicked, and the fifth attempt is
\* about to start.
C14_Witness ==
    /\ Has(events, <<"sprite", 0>>)
    /\ Last(events) = <<"reload", 1>>
    /\ pc = "entry"
    /\ attempts = 4
    /\ retry_count = 4

\* How many times the event e stands in the log.
Count(log, e) == Cardinality({i \in 1..Len(log) : log[i] = e})
\* The ways an attempt fails: invalid puzzle, answer not accepted, rejection
\* by the server, exception of a class of the except clause.
FailureSeen(log) ==
    \/ HasKind(log, "invalid")
    \/ Has(log, <<"answer", 0>>)
    \/ Has(log, <<"show-error", 0>>)
    \/ exc \in Retryable

\* C15: every attempt but the first starts right after a click of the reload
\* control that succeeded, the only one that succeeded since the attempt
\* before it started, and that click comes after that attempt failed; so no
\* two attempts follow each other without a refresh between them.
C15_RefreshBetweenAttempts ==
    [][ /\ (StartsAttempt /\ attempts >= 1) =>
              /\ Last(events) = <<"reload", 1>>
              /\ Count(events, <<"reload", 1>>) = 1
        /\ Logs(<<"reload", 1>>) => FailureSeen(events) ]_vars

\* C15's case: the server rejected the answer of the third attempt, the
\* reload control was clicked, and the fourth attempt is about to start.
C15_Witness ==
    /\ Has(events, <<"show-error", 0>>)
    /\ Last(events) = <<"reload", 1>>
    /\ pc = "entry"
    /\ attempts = 3

\* q is n / d (d > 0) without its fraction: the integer next to n / d on the
\* side of 0.
IsTrunc(q, n, d) ==
    IF n >= 0
    THEN q >= 0 /\ q * d <= n /\ n < (q + 1) * d
    ELSE q <= 0 /\ (q - 1) * d < n /\ n <= q * d

\* The raw point of the gesture at hand.
GesturePoint == PointOf(result[position_key(gi + 1)])

Parses(st) == st[1] # NoParse /\ st[2] # NoParse
\* The element has a size, neither missing nor zero.
Measurable(el) == el[1] # 0 /\ el[2] # 0

\* C18: a gesture takes width and height both from the style when both
\* declarations parse, and both from the element's size when one of them
\* does not; when the size is missing or zero too, the ValueError is a
\* retryable failure: it lands in the except handler, which clicks the
\* reload control, and the next attempt starts after a click that succeeded
\* if budget remains.
C18_SizeFallback ==
    [][ /\ (pc = "lookup" /\ pc' = "gesture") =>
              IF Parses(style') THEN size' = style'
              ELSE Measurable(slide_bg') /\ size' = slide_bg'
        /\ (pc = "lookup" /\ exc' = "ValueError") =>
              /\ ~Parses(style')
              /\ ~Measurable(slide_bg')
              /\ pc' = "handler"
        /\ (exc = "ValueError" /\ HasKind(events, "lookup_failed")) =>
              /\ pc = "handler"
              /\ \/ Logs(<<"reload", 1>>) /\ pc' = "entry" /\ retry_count' = retry_count + 1
                 \/ Logs(<<"reload", 0>>) /\ pc' = "returning" /\ ~ret'
        /\ (pc = "entry" /\ HasKind(events, "lookup_failed") /\ retry_count < CAPTCHA_RETRY_LIMIT) =>
              StartsAttempt ]_vars

\* C18's case: the height declaration did not parse and the second gesture
\* took both lengths from the element's size.
C18_Witness ==
    /\ pc = "gesture"
    /\ gi = 1
    /\ style = <<2, NoParse>>
    /\ slide_bg = <<4, 5>>
    /\ size = <<4, 5>>

\* C19: compute_similarity returns (s, m) with 0 <= s <= 1 and s = good/total,
\* m = good, good the number of entries of 2 neighbours whose nearer one is
\* at less than 0.8 times the distance of the other, total the number of
\* entries (good <= total); it returns exactly (0.0, 0) when an image has no
\* descriptors or good is 0, and the denominator is never 0.
C19_SimilarityRatio ==
    pc = "compared" =>
        LET s == similarity[1]
            good == Cardinality({i \in 1..Len(matches) :
                        Len(matches[i]) = 2 /\ 5 * matches[i][1] < 4 * matches[i][2]})
            total == Len(matches)
        IN /\ s[2] > 0
           /\ 0 <= s[1] /\ s[1] <= s[2]
           /\ good <= total
           /\ (des1 > 0 /\ des2 > 0) =>
                 /\ s[1] * total = good * s[2]
                 /\ similarity[2] = good
           /\ (des1 = 0 \/ des2 = 0 \/ good = 0) => similarity = << <<0, 1>>, 0 >>

\* C19's case: 2 of 3 entries pass the ratio test.
C19_Witness ==
    /\ pc = "compared"
    /\ des1 = 3
    /\ similarity = << <<2, 3>>, 2 >>

\* C20: check_captcha cuts the sheet of width w into the bands
\* [i * floor(w/3), (i+1) * floor(w/3)), i = 0, 1, 2, each floor(w/3) wide and
\* starting where the one before ends, classifies them in this order, and
\* returns False exactly when the sheet does not decode or a band's label is
\* "0" or "1", at the first such band and without classifying a later one;
\* it returns True after 3 labels none of which is "0" or "1".
C20_BandsAndLabels ==
    [][ pc = "check_captcha" =>
          /\ raw = 0 => (pc' = "refresh" /\ labels' = labels)
          /\ labels' # labels =>
                /\ labels' = Append(labels, Last(labels'))
                /\ Len(labels') = band + 1
                /\ temp' = <<band * (raw \div 3), (band + 1) * (raw \div 3)>>
                /\ temp'[2] - temp'[1] = raw \div 3
                /\ temp'[2] <= raw
                /\ temp'[1] = IF band = 0 THEN 0 ELSE temp[2]
                /\ Last(labels') \in {"0", "1"} => pc' = "refresh"
                /\ Last(labels') \notin {"0", "1"} =>
                      IF band = 2 THEN pc' = "read_captcha"
                      ELSE pc' = "check_captcha" /\ band' = band + 1
          /\ pc' = "refresh" => (raw = 0 \/ (labels' # labels /\ Last(labels') \in {"0", "1"}))
          /\ pc' = "read_captcha" =>
                /\ Len(labels') = 3
                /\ \A i \in 1..3 : labels'[i] \notin {"0", "1"} ]_vars

\* C20's case: a sheet of 8 columns was cut into 3 bands of 2 columns, the
\* last 2 columns in no band, and check_captcha returned True.
C20_Witness ==
    /\ pc = "read_captcha"
    /\ raw = 8
    /\ temp = <<4, 6>>
    /\ Len(labels) = 3

-----------------------------------------------------------------------------
(* download_image on its own: one call, every turn of its loop a step, the *)
(* server answering each request with a status or the request raising a    *)
(* requests.RequestException.                                              *)

DOWNLOAD_MAX_RETRIES == 3

\* The status codes a response may carry.
Statuses == {200, 404, 503}
\* What one requests.get may come to: a response, or a RequestException.
Answers == {<<"status", st>> : st \in Statuses} \cup {<<"RequestException", 0>>}

\* process_captcha stands at `place` in the first attempt of a solve of
\* version v (at "entry": no attempt yet), nothing else done.
Parked(v, place) ==
    /\ variant = v
    /\ pc = place
    /\ retry_count = 0
    /\ stack = <<>>
    /\ exc = "none"
    /\ ret = FALSE
    /\ outcome = "running"
    /\ band = 0
    /\ bboxes = <<>>
    /\ sims = <<>>
    /\ scanI = 0
    /\ result = NoResult
    /\ gi = 0
    /\ events = <<>>
    /\ attempts = IF place = "entry" THEN 0 ELSE 1
    /\ reloadFailed = FALSE
    /\ successSeen = FALSE
    /\ files = {}
    /\ reads = {}
    /\ captcha = NoPair
    /\ style = NoPair
    /\ slide_bg = NoPair
    /\ size = NoPair
    /\ final = NoPair
    /\ raw = 0
    /\ temp = NoPair
    /\ labels = <<>>
    /\ NotMatching

controller == <<variant, pc, frames, exc, ret, outcome, locals, history, reads, geometry,
                sheet, matcher>>

\* response.status_code == 200
Fetched(answer) == answer = <<"status", 200>>

\* if attempt < DOWNLOAD_MAX_RETRIES: time.sleep(DOWNLOAD_RETRY_DELAY)
SleepDue_always(a) == TRUE
SleepDue(a) == a < DOWNLOAD_MAX_RETRIES

\* download_captcha_img calls download_image(url, output_path)
DownloadInit ==
    /\ Parked("main", "download_bg")
    /\ output_path \in {"captcha", "sprite"}
    /\ attempt = 1
    /\ at = "get"
    /\ wire = <<>>
    /\ returned = "pending"
    /\ NoManager
    /\ NoSetup
    /\ NoRun

\* One turn of "for attempt in range(1, DOWNLOAD_MAX_RETRIES + 1)" down to
\* the sleep: requests.get; status 200 -> the file is written, return True;
\* another status or a RequestException -> last_error, a warning.
DownloadGet ==
    /\ at = "get"
    /\ attempt <= DOWNLOAD_MAX_RETRIES
    /\ \E answer \in Answers :
          /\ wire' = Append(wire, answer)
          /\ IF Fetched(answer)
             THEN /\ files' = Write(files, output_path, 0, attempts)
                  /\ returned' = "True"
                  /\ at' = "done"
             ELSE /\ at' = "sleep"
                  /\ UNCHANGED <<files, returned>>
    /\ UNCHANGED <<controller, output_path, attempt, renewal, setup, runner>>

\* The end of the turn: the sleep if it is due, and the next attempt.
DownloadSleep ==
    /\ at = "sleep"
    /\ wire' = IF SleepDue(attempt) THEN Append(wire, <<"sleep", 0>>) ELSE wire
    /\ attempt' = attempt + 1
    /\ at' = "get"
    /\ UNCHANGED <<controller, files, output_path, returned, renewal, setup, runner>>

\* The loop is over: the error is logged, return False.
DownloadGiveUp ==
    /\ at = "get"
    /\ attempt > DOWNLOAD_MAX_RETRIES
    /\ returned' = "False"
    /\ at' = "done"
    /\ UNCHANGED <<controller, files, output_path, attempt, wire, renewal, setup, runner>>

DownloadNext == DownloadGet \/ DownloadSleep \/ DownloadGiveUp

SpecDownload == DownloadInit /\ [][DownloadNext]_vars

\* The places of the requests and of the sleeps in the log of a call.
Requests(log) == {i \in 1..Len(log) : log[i][1] # "sleep"}
Sleeps(log) == {i \in 1..Len(log) : log[i][1] = "sleep"}

\* C21: one call of download_image sends at most DOWNLOAD_MAX_RETRIES
\* requests; a response with status 200 is the last thing on the wire and the
\* call returns True with it, and it returns True in no other way; every
\* sleep stands between a failed request and the next request, one after
\* every request that is followed by another, none after the last; and the
\* call returns False exactly when it has ended without a status 200, which
\* is after DOWNLOAD_MAX_RETRIES failed requests.
C21_DownloadRetries ==
    output_path # "none" =>
       /\ Cardinality(Requests(wire)) <= DOWNLOAD_MAX_RETRIES
       /\ \A i \in 1..Len(wire) :
             Fetched(wire[i]) => (i = Len(wire) /\ returned = "True" /\ at = "done")
       /\ returned = "True" => (wire # <<>> /\ Fetched(Last(wire)))
       /\ \A i \in Sleeps(wire) :
             /\ i > 1
             /\ i - 1 \in Requests(wire)
             /\ IF i = Len(wire) THEN returned = "pending" ELSE i + 1 \in Requests(wire)
       /\ \A i \in Requests(wire) : i < Len(wire) => i + 1 \in Sleeps(wire)
       /\ returned = "False" <=> (at = "done" /\ \A i \in 1..Len(wire) : ~Fetched(wire[i]))
       /\ returned = "False" => Cardinality(Requests(wire)) = DOWNLOAD_MAX_RETRIES
       /\ returned = "True" <=> <<output_path, 0, attempts>> \in files

\* C21's case: two requests failed, one by its status and one by an
\* exception, a sleep after each, and the third brought the image.
C21_Witness ==
    /\ output_path = "captcha"
    /\ returned = "True"
    /\ wire = << <<"status", 503>>, <<"sleep", 0>>, <<"RequestException", 0>>, <<"sleep", 0>>,
                 <<"status", 200>> >>

-----------------------------------------------------------------------------
(* Images that do not decode *)

\* The current attempt found sprite.jpg undecodable (check_captcha's raw is
\* None), or has just found captcha.jpg undecodable (captcha is None).
SpriteUndecoded == Has(events, <<"invalid", 0>>)
BgUndecoded == pc = "handler" /\ exc = "CaptchaRetryableError" /\ Has(events, <<"valid", 0>>)
Undecoded == SpriteUndecoded \/ BgUndecoded

\* C22: a sprite sheet that does not decode sends the attempt to the refresh,
\* a background that does not decode raises CaptchaRetryableError into the
\* except handler; from then on the attempt has called neither the detector
\* nor compute_similarity and does nothing but click the reload control, and
\* a reload that worked is followed by the call with retry_count + 1, which
\* starts an attempt exactly if the limit is not reached.
C22_UndecodedRetries ==
    [][ /\ (pc = "check_captcha" /\ band = 0 /\ raw = 0) =>
              (pc' = "refresh" /\ Logs(<<"invalid", 0>>))
        /\ (pc = "read_captcha" /\ exc' = "CaptchaRetryableError") =>
              (pc' = "handler" /\ events' = events /\ captcha' = NoPair)
        /\ Undecoded =>
              /\ ~HasKind(events, "detect") /\ ~HasKind(events, "similarity")
              /\ \/ events' = events
                 \/ events' = <<>> /\ StartsAttempt
                 \/ LogsKind({"reload"}) /\ Len(events') = Len(events) + 1
              /\ pc \in {"refresh", "handler"} =>
                    /\ LogsKind({"reload"})
                    /\ Last(events') = <<"reload", 1>> =>
                          (pc' = "entry" /\ retry_count' = retry_count + 1)
                    /\ Last(events') = <<"reload", 0>> => pc' \in {"returning", "raising", "handler"}
              /\ pc = "entry" => (StartsAttempt <=> retry_count < CAPTCHA_RETRY_LIMIT) ]_vars

\* C22's case: the sprite sheet of the first attempt did not decode, the
\* reload was clicked and the second call is about to start its attempt.
C22_Witness ==
    /\ pc = "entry"
    /\ retry_count = 1
    /\ events = << <<"clear", 0>>, <<"bg", 1>>, <<"sprite", 1>>, <<"invalid", 0>>, <<"reload", 1>> >>

-----------------------------------------------------------------------------
(* check_answer *)

\* Two sprites were recorded with the same similarity.
EqualSimilarities(d) ==
    \E j, k \in Sprites :
       /\ j # k
       /\ similarity_key(j) \in DOMAIN d
       /\ similarity_key(k) \in DOMAIN d
       /\ d[similarity_key(j)] = d[similarity_key(k)]

\* C23: check_answer of src/rainyun.py accepts the result of a scan if and
\* only if it holds a position for each of the 3 sprites and the 3 positions
\* are pairwise distinct, whatever the similarities are.
C23_MainAnswer ==
    (variant = "main" /\ pc # "scan") => (pc = "lookup" <=> Distinct3(result))

\* C23's case: 3 distinct positions, two sprites with the same similarity,
\* and the result accepted.
C23_Witness ==
    /\ variant = "main"
    /\ pc = "lookup"
    /\ Distinct3(result)
    /\ EqualSimilarities(result)

\* C24: check_answer of src/0x6768/rainyun.py accepts every result of a scan
\* whose 3 positions are pairwise distinct, whatever the 3 similarities are:
\* an answer it turned down has not 3 pairwise distinct positions.
C24_AltAnswer ==
    (variant = "alt" /\ pc = "refresh" /\ Has(events, <<"answer", 0>>)) => ~Distinct3(result)

-----------------------------------------------------------------------------
(* Exceptions and the reload control in src/0x6768/rainyun.py *)

\* C25: in src/0x6768/rainyun.py an exception of another class than the 3 of
\* the except clause, raised in any attempt, leaves every frame and reaches
\* the caller of process_captcha as an exception: no frame turns it into a
\* return of False, whether or not earlier attempts ended in the handler.
C25_AltOtherPropagates ==
    [][ variant = "alt" =>
          /\ (exc # "Other" /\ exc' = "Other") => pc' = "raising"
          /\ (pc = "raising" /\ exc = "Other") =>
                /\ exc' = "Other"
                /\ pc' = "raising" \/ (pc' = "done" /\ outcome' = "raised") ]_vars

\* C26: in src/0x6768/rainyun.py a reload control that cannot be found or
\* clicked makes process_captcha return False, not raise, after an ordinary
\* failed attempt (the refresh of the try body) as well as after a retryable
\* exception (the refresh of the except handler).
C26_AltReloadFailureReturnsFalse ==
    [][ (variant = "alt" /\ pc \in {"refresh", "handler"} /\ Logs(<<"reload", 0>>)) =>
           (pc' = "returning" /\ ret' = FALSE /\ exc' = "none") ]_vars

-----------------------------------------------------------------------------
(* The last attempt and short detector outputs *)

\* C27: the reload control is clicked only when another attempt will follow:
\* the frame of the last permitted attempt (retry_count =
\* CAPTCHA_RETRY_LIMIT - 1) ends without a click of the reload control, done
\* or tried.
C27_NoRefreshAfterLastAttempt ==
    [][ (variant = "main" /\ LogsKind({"reload"})) => retry_count < CAPTCHA_RETRY_LIMIT - 1 ]_vars

\* The distinct centres the scan recorded.
Centres(d) == {d[k] : k \in Positions(d)}

\* C28: when the detector gave fewer than 3 regions the scan ends with an
\* empty result (no region) or with at most as many distinct centres as
\* regions (1 or 2), check_answer turns it down in both versions, and the
\* attempt goes to the refresh without a gesture and without a submit click.
C28_FewRegionsRefresh ==
    [][ /\ (pc = "scan" /\ scanI = Len(bboxes) /\ Len(bboxes) < 3) =>
              /\ Len(bboxes) = 0 => result = NoResult
              /\ Cardinality(Centres(result)) <= Len(bboxes)
              /\ pc' = "refresh"
              /\ Logs(<<"answer", 0>>)
        /\ (HasKind(events', "detect") /\ pc' \in {"scan", "refresh"} /\ Len(bboxes') < 3) =>
              ~\E k \in ClickKinds : HasKind(events', k) ]_vars

\* C28's case: the detector gave 2 regions, the scan recorded them, and the
\* attempt stands at the refresh.
C28_Witness ==
    /\ pc = "refresh"
    /\ Len(bboxes) = 2
    /\ Cardinality(Centres(result)) = 2
    /\ Last(events) = <<"answer", 0>>

-----------------------------------------------------------------------------
(* RainyunAPI._request on its own (src/0x6768/api_client.py): one call,     *)
(* every turn of its loop a step.                                          *)

MAX_RETRIES == 3

\* The values of "code" in a JSON answer of the API: 200, or a business error.
ApiCodes == {200, 70007}

\* What one requests.get / requests.post may come to:
\*   <<"RequestException", 0>>  the call raised (timeout, DNS, connection)
\*   <<"json", c>>              a JSON object with code c (any HTTP status)
\*   <<"list", 0>>              JSON that is no object: result.get raises AttributeError
\*   <<"body", st>>             a body that is no JSON, with HTTP status st
ApiAnswers ==
    {<<"RequestException", 0>>, <<"list", 0>>}
       \cup {<<"json", c>> : c \in ApiCodes}
       \cup {<<"body", st>> : st \in Statuses}

\* The turn ends in "except requests.RequestException": the request raised,
\* or response.json() raised ValueError and response.raise_for_status()
\* raised HTTPError, which is a RequestException, for a status of 400 or more.
RaisesRequestException_business(answer) == answer # <<"json", 200>>
RaisesRequestException(answer) ==
    \/ answer[1] = "RequestException"
    \/ answer[1] = "body" /\ answer[2] >= 400

\* How the turn ends when it ends the call.
Outcome(answer) ==
    IF answer = <<"json", 200>> THEN "data"
    ELSE IF answer[1] = "list" THEN "AttributeError"
    ELSE "RainyunAPIError"

ApiInit ==
    /\ Parked("alt", "entry")
    /\ output_path = "none"
    /\ attempt = 1
    /\ at = "send"
    /\ wire = <<>>
    /\ returned = "pending"
    /\ NoManager
    /\ NoSetup
    /\ NoRun

\* One turn of "for attempt in range(1, MAX_RETRIES + 1)" down to the except
\* clause: the request, response.json(), the test of the code.
ApiSend ==
    /\ at = "send"
    /\ attempt <= MAX_RETRIES
    /\ \E answer \in ApiAnswers :
          /\ wire' = Append(wire, answer)
          /\ IF RaisesRequestException(answer)
             THEN /\ at' = "except"
                  /\ UNCHANGED returned
             ELSE /\ at' = "done"
                  /\ returned' = Outcome(answer)
    /\ UNCHANGED <<controller, files, output_path, attempt, renewal, setup, runner>>

\* except requests.RequestException: last_error = e; the warning and the
\* sleep if attempt < MAX_RETRIES; continue
ApiExcept ==
    /\ at = "except"
    /\ wire' = IF attempt < MAX_RETRIES THEN Append(wire, <<"sleep", 0>>) ELSE wire
    /\ attempt' = attempt + 1
    /\ at' = "send"
    /\ UNCHANGED <<controller, files, output_path, returned, renewal, setup, runner>>

\* The loop is over: raise RainyunAPIError(network request failed)
ApiGiveUp ==
    /\ at = "send"
    /\ attempt > MAX_RETRIES
    /\ returned' = "RainyunAPIError"
    /\ at' = "done"
    /\ UNCHANGED <<controller, files, output_path, attempt, wire, renewal, setup, runner>>

ApiNext == ApiSend \/ ApiExcept \/ ApiGiveUp

SpecApi == ApiInit /\ [][ApiNext]_vars

\* A request that failed below the API: it raised, or its answer was no JSON
\* and carried an HTTP error status (raise_for_status raises HTTPError, a
\* requests.RequestException).
NetworkFailure(e) == e[1] = "RequestException" \/ (e[1] = "body" /\ e[2] \in {404, 503})
BusinessError(e) == e[1] = "json" /\ e[2] # 200

\* C29: one call of _request sends at most MAX_RETRIES requests; a request is
\* followed by another only if it failed by a requests.RequestException; a
\* JSON answer whose code is not 200 is the last request of the call, which
\* raises RainyunAPIError; and a call whose MAX_RETRIES requests all failed
\* by a RequestException raises RainyunAPIError and returns nothing.
C29_RequestRetries ==
    (output_path = "none" /\ at # "idle") =>
       /\ Cardinality(Requests(wire)) <= MAX_RETRIES
       /\ \A i \in Requests(wire) : i < Len(wire) => NetworkFailure(wire[i])
       /\ \A i \in Requests(wire) :
             BusinessError(wire[i]) =>
                (i = Len(wire) /\ at = "done" /\ returned = "RainyunAPIError")
       /\ returned = "data" => (wire # <<>> /\ Last(wire) = <<"json", 200>>)
       /\ (at = "done" /\ \A i \in Requests(wire) : NetworkFailure(wire[i])) =>
             (Cardinality(Requests(wire)) = MAX_RETRIES /\ returned = "RainyunAPIError")
       /\ (Cardinality(Requests(wire)) = MAX_RETRIES /\ NetworkFailure(Last(wire))) =>
             (returned = "pending" \/ (at = "done" /\ returned = "RainyunAPIError"))

\* C29's case: MAX_RETRIES requests failed, two by raising and one by an
\* HTML answer with status 503, and the call raised RainyunAPIError.
C29_Witness ==
    /\ at = "done"
    /\ returned = "RainyunAPIError"
    /\ wire = << <<"RequestException", 0>>, <<"sleep", 0>>, <<"body", 503>>, <<"sleep", 0>>,
                 <<"RequestException", 0>> >>

-----------------------------------------------------------------------------
(* ServerManager (src/0x6768/server_manager.py): __init__, get_all_servers  *)
(* and check_and_renew, the loop over the servers one turn a step.  A      *)
(* server is <<days_remaining, renew_price, id>>.                          *)

MaxServers == 2
MaxPoints == 3

Days == {0, 1, 2}
Prices == {1, 2}
Thresholds == {0, 1}

\* The ids get_server_ids gives.
ServerIds == 1..MaxServers

\* RENEW_PRODUCT_IDS split at its commas is a list of entries: an id, an
\* entry of white space only (Blank), or an entry int() raises ValueError
\* for (Junk).
Blank == 0
Junk == -1
IdLists == UNION {[1..n -> ServerIds \cup {Blank, Junk}] : n \in 0..2}

\* [int(x.strip()) for x in renew_ids_str.split(",") if x.strip()] raises no
\* ValueError.
WhitelistParses_lenient(ids) == TRUE
WhitelistParses(ids) == \A i \in 1..Len(ids) : ids[i] # Junk

\* ServerManager.__init__: the whitelist is what parsed, blank entries
\* dropped; when an entry does not parse it is empty and the error is
\* flagged.  (RENEW_THRESHOLD_DAYS is taken as it parsed.)
NewManager(env) ==
    [auto_renew |-> env.AUTO_RENEW,
     renew_threshold |-> env.RENEW_THRESHOLD_DAYS,
     renew_product_ids |->
        IF WhitelistParses(env.RENEW_PRODUCT_IDS)
        THEN {env.RENEW_PRODUCT_IDS[i] : i \in 1..Len(env.RENEW_PRODUCT_IDS)} \ {Blank}
        ELSE {},
     whitelist_parse_error |-> ~WhitelistParses(env.RENEW_PRODUCT_IDS)]

\* What get_server_detail gives for an id, as <<tag, days_remaining, price>>:
\* it raises RainyunAPIError, or the detail has no ExpDate, ExpDate 0, a
\* negative ExpDate (such a server taken as due and cheap), or a good one.
Details ==
    {<<tag, 0, 1>> : tag \in {"RainyunAPIError", "missing", "zero", "negative"}}
       \cup {<<"ok", d, p>> : d \in Days, p \in Prices}

\* expired_at = server_data.get("ExpDate", 0), only its sign kept
ExpDate(detail) ==
    IF detail[1] \in {"missing", "zero"} THEN 0
    ELSE IF detail[1] = "negative" THEN -1
    ELSE 1

\* if not expired_at or expired_at <= 0: continue
Skipped_never(expired_at) == FALSE
Skipped(expired_at) == expired_at = 0 \/ expired_at <= 0

\* get_all_servers over the ids 1..n: a server for every id whose detail
\* came and has a good ExpDate.
RECURSIVE Collect(_, _)
Collect(ds, n) ==
    IF n = 0 THEN <<>>
    ELSE IF ds[n][1] = "RainyunAPIError" \/ Skipped(ExpDate(ds[n])) THEN Collect(ds, n - 1)
    ELSE Append(Collect(ds, n - 1), <<ds[n][2], ds[n][3], n>>)

\* if server.days_remaining <= self.renew_threshold
Due(m, server) == server[1] <= m.renew_threshold

\* not (self.renew_product_ids and server.id not in self.renew_product_ids)
Whitelisted(m, id) == m.renew_product_ids = {} \/ id \in m.renew_product_ids

\* if result["points"] >= server.renew_price
Affordable_always(balance, server) == TRUE
Affordable(balance, server) == balance >= server[2]

\* result["points"] -= server.renew_price
Charge_free(balance, server) == balance
Charge(balance, server) == balance - server[2]

\* sum(s.renew_price for s in list)
RECURSIVE Total(_)
Total(list) == IF list = <<>> THEN 0 ELSE list[1][2] + Total(Tail(list))

\* whitelist_servers: the servers of the whitelist, or all when it is empty
InWhitelist(m, list) == SelectSeq(list, LAMBDA s : Whitelisted(m, s[3]))

\* result["points_warning"] as lines 163-184 leave it
PointsWarning(m, list, balance) ==
    LET ws == InWhitelist(m, list)
        shortage == Total(ws) - balance
    IN  IF ~m.whitelist_parse_error /\ ws # <<>> /\ balance < Total(ws)
        THEN [current |-> balance, needed |-> Total(ws), shortage |-> shortage,
              servers_count |-> Len(ws),
              days_to_recover |-> (shortage \div 500) + (IF shortage % 500 # 0 THEN 1 ELSE 0)]
        ELSE NoWarning

\* The if / elif chain of a turn: what is done for the server.
Decision(m, id, server, balance) ==
    IF ~Due(m, server) THEN "none"
    ELSE IF m.whitelist_parse_error THEN "whitelist_error"
    ELSE IF ~Whitelisted(m, id) THEN "not_whitelisted"
    ELSE IF ~m.auto_renew THEN "auto_renew_off"
    ELSE IF Affordable(balance, server) THEN "renew"
    ELSE "insufficient"

\* The environments ServerManager is made in.
RenewEnvirons ==
    [credentials : {TRUE}, RAINYUN_API_KEY : {TRUE}, AUTO_RENEW : BOOLEAN,
     RENEW_THRESHOLD_DAYS : Thresholds, RENEW_PRODUCT_IDS : IdLists]

\* manager = ServerManager(api_key); manager.check_and_renew() is entered
RenewInit ==
    /\ Parked("alt", "entry")
    /\ NoTraffic
    /\ NoRun
    /\ environ \in RenewEnvirons
    /\ loaded = TRUE
    /\ manager = NewManager(environ)
    /\ details \in [ServerIds -> Details]
    /\ stage = "start"
    /\ servers = <<>>
    /\ visited = 0
    /\ points = 0
    /\ fetched = 0
    /\ renewed = <<>>
    /\ warnings = <<>>
    /\ sent = <<>>
    /\ listed = <<>>
    /\ points_warning = NoWarning

\* Lines 153-185: get_user_points (RainyunAPIError ends the run with a
\* warning), get_all_servers (a get_server_ids that raises leaves no server),
\* the points warning.
Fetch ==
    /\ stage = "start"
    /\ \/ /\ warnings' = Append(warnings, "api_failed")
          /\ stage' = "done"
          /\ UNCHANGED <<points, fetched, servers, points_warning>>
       \/ \E balance \in 0..MaxPoints, ids \in BOOLEAN :
             /\ points' = balance
             /\ fetched' = balance
             /\ servers' = IF ids THEN Collect(details, MaxServers) ELSE <<>>
             /\ points_warning' = PointsWarning(manager, servers', balance)
             /\ stage' = "loop"
             /\ UNCHANGED warnings
    /\ UNCHANGED <<controller, files, http, setup, runner, manager, visited, renewed, sent,
                   details, listed>>

\* What the turn does when the chain does not come to renew_server: a
\* warning for a due server, and the server's status with renewed False.
Refuse(id, what) ==
    /\ warnings' = IF what = "none" THEN warnings ELSE Append(warnings, what)
    /\ listed' = Append(listed, <<id, FALSE>>)
    /\ visited' = visited + 1
    /\ UNCHANGED <<points, renewed, stage>>

\* What the turn does after renew_server: it returned (the balance is
\* reduced, the server renewed), it raised RainyunAPIError (a warning), or it
\* raised something else, which leaves check_and_renew.
Settle_always(id, server, how) ==
    /\ points' = Charge(points, server)
    /\ renewed' = Append(renewed, id)
    /\ listed' = Append(listed, <<id, TRUE>>)
    /\ visited' = visited + 1
    /\ UNCHANGED <<warnings, stage>>
Settle(id, server, how) ==
    IF how = "data"
    THEN /\ points' = Charge(points, server)
         /\ renewed' = Append(renewed, id)
         /\ listed' = Append(listed, <<id, TRUE>>)
         /\ visited' = visited + 1
         /\ UNCHANGED <<warnings, stage>>
    ELSE IF how = "RainyunAPIError"
    THEN /\ warnings' = Append(warnings, "renew_failed")
         /\ listed' = Append(listed, <<id, FALSE>>)
         /\ visited' = visited + 1
         /\ UNCHANGED <<points, renewed, stage>>
    ELSE /\ stage' = "raised"
         /\ UNCHANGED <<points, renewed, listed, visited, warnings>>

\* One turn of "for server in servers", renew_server taken as one step.
Visit ==
    /\ stage = "loop"
    /\ visited < Len(servers)
    /\ LET server == servers[visited + 1]
           id == server[3]
           what == Decision(manager, id, server, points)
       IN  IF what = "renew"
           THEN /\ sent' = Append(sent, id)
                /\ \E how \in {"data", "RainyunAPIError", "AttributeError"} :
                      Settle(id, server, how)
           ELSE /\ Refuse(id, what)
                /\ UNCHANGED sent
    /\ UNCHANGED <<controller, files, http, setup, runner, manager, servers, details, fetched,
                   points_warning>>

\* The loop is over: return result
Finish ==
    /\ stage = "loop"
    /\ visited = Len(servers)
    /\ stage' = "done"
    /\ UNCHANGED <<controller, files, http, setup, runner, manager, servers, visited, points,
                   renewed, warnings, sent, details, fetched, listed, points_warning>>

RenewNext == Fetch \/ Visit \/ Finish

SpecRenew == RenewInit /\ [][RenewNext]_vars

\* C30: renew_server is called for a server only in its turn of the loop and
\* only if then its days_remaining is at most renew_threshold, the whitelist
\* parsed, the whitelist is empty or holds the server's id, auto_renew is on,
\* and the balance, as the renewals before it left it, is at least the
\* server's renew_price; the balance goes down by that price when the renewal
\* succeeded and by nothing else, and never below 0.
C30_RenewOnlyIf ==
    [][ stage = "loop" =>
          /\ sent' # sent =>
                /\ sent' = Append(sent, servers[visited + 1][3])
                /\ servers[visited + 1][1] <= manager.renew_threshold
                /\ ~manager.whitelist_parse_error
                /\ \/ manager.renew_product_ids = {}
                   \/ servers[visited + 1][3] \in manager.renew_product_ids
                /\ manager.auto_renew
                /\ points >= servers[visited + 1][2]
          /\ renewed' # renewed =>
                /\ sent' # sent
                /\ renewed' = Append(renewed, servers[visited + 1][3])
                /\ points' = points - servers[visited + 1][2]
          /\ renewed' = renewed => points' = points
          /\ points' >= 0 ]_vars

\* C30's case: 2 due servers of price 2 and a balance of 3: the first was
\* renewed, the second was not for want of points.
C30_Witness ==
    /\ Len(servers) = 2
    /\ visited = 2
    /\ sent = <<1>>
    /\ renewed = <<1>>
    /\ points = 1
    /\ warnings = <<"insufficient">>

\* The servers of the list that were renewed, and what they cost together.
RenewedServers == SelectSeq(servers, LAMBDA s : \E i \in 1..Len(renewed) : renewed[i] = s[3])
Spent == Total(RenewedServers)

\* C31: at every point of check_and_renew the balance is the points fetched
\* at its start less the prices of the servers renewed so far, and it is
\* never negative; the servers are taken in the order of the list, each
\* against the balance the renewals before it left, so that one whose price
\* is above that balance is not renewed.
C31_RunningBalance ==
    [][ /\ points' = fetched' - Spent'
        /\ points' >= 0
        /\ Len(listed') = visited'
        /\ \A i \in 1..Len(listed') : listed'[i][1] = servers'[i][3]
        /\ \A i \in 1..Len(renewed') : \E j \in 1..visited' : servers'[j][3] = renewed'[i]
        /\ (stage = "loop" /\ visited < Len(servers) /\ points < servers[visited + 1][2]) =>
              /\ UNCHANGED <<sent, renewed, points>>
              /\ listed' = Append(listed, <<servers[visited + 1][3], FALSE>>) ]_vars

\* C31's case: 3 points fetched, the first server renewed for 2, the second,
\* of price 2 as well, refused for want of points.
C31_Witness ==
    /\ stage = "done"
    /\ fetched = 3
    /\ points = 1
    /\ renewed = <<1>>
    /\ listed = << <<1, TRUE>>, <<2, FALSE>> >>
    /\ warnings = <<"insufficient">>

\* RENEW_PRODUCT_IDS has an entry that int() raises ValueError for.
HasJunk == \E i \in 1..Len(environ.RENEW_PRODUCT_IDS) : environ.RENEW_PRODUCT_IDS[i] = Junk

\* C32: when RENEW_PRODUCT_IDS has an entry that is not an integer, no
\* renewal request is sent in the run, whatever AUTO_RENEW, the days left and
\* the points are: nothing is renewed, the balance stays as fetched, and the
\* turn of a server that is due adds the warning of the whitelist error and
\* nothing else.
C32_JunkWhitelistNoRenewal ==
    [][ HasJunk =>
          /\ sent' = <<>>
          /\ renewed' = <<>>
          /\ points' = fetched'
          /\ (stage = "loop" /\ visited < Len(servers)) =>
                /\ visited' = visited + 1
                /\ listed' = Append(listed, <<servers[visited + 1][3], FALSE>>)
                /\ warnings' = IF servers[visited + 1][1] <= manager.renew_threshold
                               THEN Append(warnings, "whitelist_error")
                               ELSE warnings ]_vars

\* C32's case: the whitelist is "1,x", AUTO_RENEW is on, 3 points, 2 servers
\* due and affordable: both were passed with the warning only.
C32_Witness ==
    /\ environ.RENEW_PRODUCT_IDS = <<1, Junk>>
    /\ environ.AUTO_RENEW
    /\ stage = "done"
    /\ fetched = 3
    /\ Len(servers) = 2
    /\ servers[1][2] = 1
    /\ warnings = <<"whitelist_error", "whitelist_error">>
    /\ sent = <<>>

\* The ids whose detail has no ExpDate, ExpDate 0 or a negative ExpDate.
InvalidExpDate == {id \in ServerIds : details[id][1] \in {"missing", "zero", "negative"}}

\* The ids of a list of servers.
IdsOf(list) == {list[i][3] : i \in 1..Len(list)}

\* The ids 1..n whose detail came with a good ExpDate and which the whitelist
\* lets through, and the sum of their prices.
Counted(n) ==
    {id \in 1..n : /\ details[id][1] = "ok"
                   /\ (manager.renew_product_ids = {} \/ id \in manager.renew_product_ids)}

RECURSIVE CountedCost(_)
CountedCost(n) ==
    IF n = 0 THEN 0
    ELSE CountedCost(n - 1) + (IF n \in Counted(n) THEN details[n][3] ELSE 0)

\* C33: a server whose detail has a missing, zero or negative ExpDate is not
\* among the servers get_all_servers returns: it is not in result["servers"],
\* no renewal request is sent for it, it is not renewed, and a points warning
\* counts and sums the other servers only.
C33_InvalidExpDateSkipped ==
    /\ \A id \in InvalidExpDate :
          /\ id \notin IdsOf(servers)
          /\ id \notin {listed[i][1] : i \in 1..Len(listed)}
          /\ id \notin {sent[i] : i \in 1..Len(sent)}
          /\ id \notin {renewed[i] : i \in 1..Len(renewed)}
    /\ points_warning # NoWarning =>
          /\ points_warning.servers_count = Cardinality(Counted(MaxServers))
          /\ points_warning.needed = CountedCost(MaxServers)
          /\ points_warning.shortage = CountedCost(MaxServers) - fetched

\* C33's case: server 1 has a negative ExpDate, server 2 is due at price 2
\* and 1 point was fetched: the warning counts server 2 alone and the run
\* ended with server 2 alone listed.
C33_Witness ==
    /\ details[1][1] = "negative"
    /\ details[2] = <<"ok", 0, 2>>
    /\ stage = "done"
    /\ fetched = 1
    /\ points_warning.servers_count = 1
    /\ points_warning.needed = 2
    /\ listed = << <<2, FALSE>> >>
    /\ warnings = <<"insufficient">>

-----------------------------------------------------------------------------
(* check_and_renew with renew_server followed into RainyunAPI._request      *)
(* (src/0x6768/api_client.py 131-150 and 37-89): the turn of a server that *)
(* is to be renewed is the call, the turns of the loop of _request, and    *)
(* what check_and_renew does with the outcome.                             *)

\* A turn comes to self.api.renew_server(server.id, days=7): _request is
\* entered with POST /product/point_renew.
VisitCall ==
    /\ stage = "loop"
    /\ at = "idle"
    /\ visited < Len(servers)
    /\ Decision(manager, servers[visited + 1][3], servers[visited + 1], points) = "renew"
    /\ sent' = Append(sent, servers[visited + 1][3])
    /\ at' = "send"
    /\ attempt' = 1
    /\ wire' = <<>>
    /\ returned' = "pending"
    /\ UNCHANGED <<controller, files, output_path, setup, runner, manager, servers, visited,
                   points, renewed, warnings, details, stage, fetched, listed, points_warning>>

\* A turn that does not come to renew_server.
VisitSkip ==
    /\ stage = "loop"
    /\ at = "idle"
    /\ visited < Len(servers)
    /\ Decision(manager, servers[visited + 1][3], servers[visited + 1], points) # "renew"
    /\ Refuse(servers[visited + 1][3],
              Decision(manager, servers[visited + 1][3], servers[visited + 1], points))
    /\ UNCHANGED <<controller, files, http, setup, runner, manager, servers, sent, details,
                   fetched, points_warning>>

\* _request is over: lines 212-218 with what it returned or raised.
VisitReturn ==
    /\ stage = "loop"
    /\ at = "done"
    /\ Settle(servers[visited + 1][3], servers[visited + 1], returned)
    /\ at' = "idle"
    /\ UNCHANGED <<controller, files, output_path, attempt, wire, returned, setup, runner,
                   manager, servers, sent, details, fetched, points_warning>>

WireNext ==
    \/ Fetch
    \/ VisitCall
    \/ VisitSkip
    \/ ApiSend
    \/ ApiExcept
    \/ ApiGiveUp
    \/ VisitReturn
    \/ Finish

\* The environments of the runs followed down to the wire: AUTO_RENEW on, no
\* whitelist or server 1 alone.
WireEnvirons ==
    [credentials : {TRUE}, RAINYUN_API_KEY : {TRUE}, AUTO_RENEW : {TRUE},
     RENEW_THRESHOLD_DAYS : Thresholds, RENEW_PRODUCT_IDS : {<<>>, <<1>>}]

WireInit ==
    /\ RenewInit
    /\ environ \in WireEnvirons

SpecRenewWire == WireInit /\ [][WireNext]_vars

\* C35: in one run of check_and_renew at most one request POST
\* /product/point_renew is sent for a server: renew_server is called at most
\* once for a server, and a call sends at most one request.
C35_OneRenewRequestPerServer ==
    /\ \A i, j \in 1..Len(sent) : sent[i] = sent[j] => i = j
    /\ (stage = "loop" /\ at # "idle") => Cardinality(Requests(wire)) <= 1

\* The ids whose get_server_detail raises RainyunAPIError.
DetailFailed == {id \in ServerIds : details[id][1] = "RainyunAPIError"}

\* What lines 216-218 do with a RainyunAPIError of renew_server: the balance
\* and the renewed stay, the server is listed as not renewed, a warning is
\* added, and the loop goes on to the next server.
RenewErrorContained ==
    (stage = "loop" /\ at = "done" /\ returned = "RainyunAPIError") =>
       /\ points' = points
       /\ renewed' = renewed
       /\ listed' = Append(listed, <<servers[visited + 1][3], FALSE>>)
       /\ warnings' = Append(warnings, "renew_failed")
       /\ visited' = visited + 1
       /\ stage' = "loop"
       /\ at' = "idle"

\* C34 as it was stated: a RainyunAPIError of renew_server for a server, or of
\* get_server_detail for a server, leaves the balance, has the server listed
\* as not renewed with a warning, and lets the other servers be checked.
C34_ErrorMarksNotRenewed ==
    [][ /\ RenewErrorContained
        /\ (stage = "loop" /\ stage' = "done" /\ servers # <<>>) =>
              \A id \in DetailFailed :
                 /\ \E i \in 1..Len(listed') : listed'[i] = <<id, FALSE>>
                 /\ warnings' # <<>> ]_vars

\* C34: a RainyunAPIError of renew_server for a server leaves the balance,
\* has the server listed as not renewed with a warning, and the loop goes on
\* to the next server; a RainyunAPIError of get_server_detail for a server
\* leaves the balance as fetched and the server out of the result, with no
\* entry among the servers and no warning, and the servers whose detail came
\* are all in the list and all get their turn.
C34_ErrorContained ==
    [][ /\ RenewErrorContained
        /\ (stage = "start" /\ stage' = "loop") =>
              /\ points' = fetched'
              /\ warnings' = warnings
              /\ listed' = <<>>
              /\ servers' # <<>> => IdsOf(servers') = {id \in ServerIds : details[id][1] = "ok"}
        /\ \A id \in DetailFailed :
              /\ id \notin IdsOf(servers')
              /\ id \notin {listed'[i][1] : i \in 1..Len(listed')}
              /\ id \notin {sent'[i] : i \in 1..Len(sent')}
        /\ (stage = "loop" /\ stage' = "done") => Len(listed') = Len(servers') ]_vars

\* C34's case: renew_server raised RainyunAPIError for server 1 after 3
\* requests; server 2 was renewed after it, out of a balance still whole.
C34_Witness ==
    /\ stage = "done"
    /\ Len(servers) = 2
    /\ fetched = 2
    /\ points = 0
    /\ servers[2][2] = 2
    /\ listed = << <<1, FALSE>>, <<2, TRUE>> >>
    /\ warnings = <<"renew_failed">>
    /\ renewed = <<2>>
    /\ sent = <<1, 2>>

-----------------------------------------------------------------------------
(* run() (src/rainyun.py 463-624, src/0x6768/rainyun.py 368-502): the try   *)
(* block a step a stage, process_captcha taken by what it returns, and the *)
(* finally block a step a numbered part.  trail is what the finally block  *)
(* did, in order: "quit" (driver.quit()), "check" (ServerManager made and  *)
(* check_and_renew called), "notify" (send called).                        *)

\* How the try block may end.
Endings ==
    {"missing_credentials", "login_failed", "already_signed", "captcha_failed", "exception",
     "success"}

\* The environments run() is started in; the settings of the renewal are
\* left at one value.
RunEnvirons ==
    [credentials : BOOLEAN, RAINYUN_API_KEY : BOOLEAN, AUTO_RENEW : {TRUE},
     RENEW_THRESHOLD_DAYS : {0}, RENEW_PRODUCT_IDS : {<<>>}]

\* run() is entered; loaded tells whether "from server_manager import
\* ServerManager" succeeded when the module was loaded.
RunInit ==
    /\ \E v \in Variants : Parked(v, "entry")
    /\ NoTraffic
    /\ NoManager
    /\ environ \in RunEnvirons
    /\ loaded \in BOOLEAN
    /\ step = "config"
    /\ driver = FALSE
    /\ ending = "none"
    /\ trail = <<>>

\* The try block is left, by return or through "except Exception".
Leave(how) ==
    /\ ending' = how
    /\ step' = "finally"

\* The settings are read: int() of TIMEOUT or MAX_DELAY may raise ValueError;
\* without RAINYUN_USER or RAINYUN_PWD run() returns.
ReadConfig ==
    /\ step = "config"
    /\ \/ Leave("exception")
       \/ /\ ~environ.credentials
          /\ Leave("missing_credentials")
       \/ /\ environ.credentials
          /\ step' = "init"
          /\ UNCHANGED ending
    /\ UNCHANGED <<controller, files, http, renewal, setup, driver, trail>>

\* ddddocr, init_selenium, stealth.min.js, the context: an exception before
\* "driver = init_selenium(...)" has returned leaves driver None, one after
\* it leaves the browser started.
StartBrowser ==
    /\ step = "init"
    /\ \/ /\ Leave("exception")
          /\ UNCHANGED driver
       \/ /\ Leave("exception")
          /\ driver' = TRUE
       \/ /\ step' = "login"
          /\ driver' = TRUE
          /\ UNCHANGED ending
    /\ UNCHANGED <<controller, files, http, renewal, setup, trail>>

\* The login (by cookie in src/rainyun.py, then do_login): logged in, not
\* logged in (return), or an exception.
Login ==
    /\ step = "login"
    /\ \/ /\ step' = "earn"
          /\ UNCHANGED ending
       \/ Leave("login_failed")
       \/ Leave("exception")
    /\ UNCHANGED <<controller, files, http, renewal, setup, driver, trail>>

\* The page of the reward: the button is there and is clicked; it is not
\* and the page says the sign-in was done (return); it is not and the page
\* says nothing of the kind (raise Exception); or something else raised.
Earn ==
    /\ step = "earn"
    /\ \/ /\ step' = "captcha"
          /\ UNCHANGED ending
       \/ Leave("already_signed")
       \/ Leave("exception")
    /\ UNCHANGED <<controller, files, http, renewal, setup, driver, trail>>

\* if not process_captcha(ctx): raise Exception(...); the points are read
\* under a try of their own; an exception of process_captcha or of the
\* switches of frame comes to "except Exception" as well.
Captcha ==
    /\ step = "captcha"
    /\ \E answer \in {"True", "False", "raised"} :
          Leave(IF answer = "True" THEN "success"
                ELSE IF answer = "False" THEN "captcha_failed"
                ELSE "exception")
    /\ UNCHANGED <<controller, files, http, renewal, setup, driver, trail>>

\* if driver:
QuitDue_never(d) == FALSE
QuitDue(d) == d

\* finally, part 1: driver.quit() under "except Exception: pass"
QuitBrowser ==
    /\ step = "finally"
    /\ trail' = IF QuitDue(driver) THEN Append(trail, "quit") ELSE trail
    /\ step' = IF variant = "main" THEN "servers" ELSE "notify"
    /\ UNCHANGED <<controller, files, http, renewal, setup, driver, ending>>

\* if api_key and ServerManager:
CheckDue_credentials(env, module) == env.RAINYUN_API_KEY /\ module /\ env.credentials
CheckDue(env, module) == env.RAINYUN_API_KEY /\ module

\* finally, part 2 of src/rainyun.py: the servers are checked, whatever
\* ServerManager raises being caught; without the key or the module only a
\* line is logged.
CheckServers ==
    /\ step = "servers"
    /\ variant = "main"
    /\ trail' = IF CheckDue(environ, loaded) THEN Append(trail, "check") ELSE trail
    /\ step' = "notify"
    /\ UNCHANGED <<controller, files, http, renewal, setup, driver, ending>>

\* log_capture_string.getvalue(); send("雨云签到", ...)
Notify ==
    /\ step = "notify"
    /\ trail' = Append(trail, "notify")
    /\ step' = "cleanup"
    /\ UNCHANGED <<controller, files, http, renewal, setup, driver, ending>>

\* log_capture_string.close(), the temporary directory; run() returns
Cleanup ==
    /\ step = "cleanup"
    /\ step' = "returned"
    /\ UNCHANGED <<controller, files, http, renewal, setup, driver, ending, trail>>

RunNext ==
    \/ ReadConfig
    \/ StartBrowser
    \/ Login
    \/ Earn
    \/ Captcha
    \/ QuitBrowser
    \/ CheckServers
    \/ Notify
    \/ Cleanup

SpecRun == RunInit /\ [][RunNext]_vars

\* The places of an entry in the trail.
Places(what) == {i \in 1..Len(trail) : trail[i] = what}

\* C36: however the try block of run() ended, run() returns with send called
\* exactly once, send is called at no other time, and when a browser was
\* started driver.quit() was called before send; no run stops short of its
\* return.
C36_OneNotificationAfterQuit ==
    /\ Cardinality(Places("notify")) <= 1
    /\ step = "returned" =>
          /\ ending \in Endings
          /\ Cardinality(Places("notify")) = 1
    /\ \A i \in Places("notify") :
          /\ step \in {"cleanup", "returned"}
          /\ driver => \E j \in Places("quit") : j < i
    /\ Cardinality(Places("quit")) <= 1
    /\ step # "returned" => ENABLED RunNext

\* C36's case: the captcha failed in src/0x6768/rainyun.py, the browser was
\* quit, then the notification was sent.
C36_Witness ==
    /\ variant = "alt"
    /\ step = "returned"
    /\ ending = "captcha_failed"
    /\ driver
    /\ trail = <<"quit", "notify">>

\* C37: in src/rainyun.py, when RAINYUN_API_KEY is set and the server manager
\* module loaded, the check of the servers is made exactly once in a run()
\* whatever the ending of the try block, missing credentials, login failure
\* and captcha failure included, and before send is called; without the key
\* or the module it is not made.
C37_ServerCheckOnceBeforeNotify ==
    variant = "main" =>
       /\ Cardinality(Places("check")) <= 1
       /\ (environ.RAINYUN_API_KEY /\ loaded /\ step \in {"notify", "cleanup", "returned"}) =>
             Cardinality(Places("check")) = 1
       /\ (environ.RAINYUN_API_KEY /\ loaded) =>
             \A i \in Places("notify") : \E j \in Places("check") : j < i
       /\ ~(environ.RAINYUN_API_KEY /\ loaded) => Places("check") = {}
       /\ \A i \in Places("check") : \A j \in Places("quit") : j < i
       /\ step = "returned" => ending \in Endings

\* C37's case: no credentials but the key and the module: run() returned at
\* once, the servers were checked and then the notification was sent.
C37_Witness ==
    /\ variant = "main"
    /\ ~environ.credentials
    /\ environ.RAINYUN_API_KEY
    /\ loaded
    /\ step = "returned"
    /\ ending = "missing_credentials"
    /\ trail = <<"check", "notify">>

====
